---- MODULE Spec2Model ----
(***************************************************************************)
(* A model of the HDF5 export engine (twinleaf/src/data/export.rs) and of  *)
(* the column filter (twinleaf/src/data/filter.rs).                        *)
(*                                                                         *)
(* Text is modelled as a sequence of one-character strings wherever the    *)
(* code looks at characters (the filter); Str turns such a sequence into a *)
(* string where the code only formats it (group and dataset names).        *)
(***************************************************************************)
EXTENDS Integers, Sequences, FiniteSets, TLC

(***************************************************************************)
(* Bounds of the model.                                                    *)
(***************************************************************************)
\* number of write_sample calls in one run of the appender
MaxSamples == 3
\* largest batch_size the appender is constructed with
MaxBatchSize == 2
\* number of write_sample calls in one run that records the boundaries
MaxRecordedCalls == 2
\* the write_sample calls made where the callers choose the sample numbers
MaxNumberedCalls == 2
\* the write_sample calls made where the order of creation is recorded
MaxOrderedCalls == 2
\* the largest sample number a caller chooses
MaxSampleNumber == 2

\* the calls made on an appender whose file fails, and the file operations
\* that succeed before the one that fails
MaxIoCalls == 3
MaxFaultDelay == 20

\* the length of the filter patterns that are enumerated
MaxPatternLen == 4

(***************************************************************************)
(* Text helpers.                                                           *)
(***************************************************************************)
RECURSIVE Str(_)
Str(s) == IF s = <<>> THEN "" ELSE Head(s) \o Str(Tail(s))

Letters == {"a", "b", "c", "d", "e", "f", "g", "h", "i", "j", "k", "l", "m",
            "n", "o", "p", "q", "r", "s", "t", "u", "v", "w", "x", "y", "z"}

contains(s, c) == \E i \in 1..Len(s) : s[i] = c

starts_with(s, p) == Len(s) >= Len(p) /\ SubSeq(s, 1, Len(p)) = p

ends_with(s, p) == Len(s) >= Len(p) /\ SubSeq(s, Len(s) - Len(p) + 1, Len(s)) = p

RECURSIVE trim_start(_)
trim_start(s) == IF s # <<>> /\ Head(s) = " " THEN trim_start(Tail(s)) ELSE s

RECURSIVE trim_end(_)
trim_end(s) ==
    IF s # <<>> /\ s[Len(s)] = " " THEN trim_end(SubSeq(s, 1, Len(s) - 1)) ELSE s

trim(s) == trim_end(trim_start(s))

(***************************************************************************)
(* Routes.  A DeviceRoute is a sequence of routing indices; its text is    *)
(* "/" for the root and "/0/1" otherwise, and both users strip the leading *)
(* slashes (trim_start_matches('/')).                                      *)
(***************************************************************************)
\* the decimal digits of n, one character each
RECURSIVE decimal(_)
decimal(n) ==
    IF n < 10 THEN <<ToString(n)>> ELSE Append(decimal(n \div 10), ToString(n % 10))

RECURSIVE route_to_string(_)
route_to_string(route) ==
    IF route = <<>> THEN <<>>
    ELSE <<"/">> \o decimal(Head(route)) \o route_to_string(Tail(route))

DeviceRoute_to_string(route) ==
    IF route = <<>> THEN <<"/">> ELSE route_to_string(route)

RECURSIVE trim_start_matches_slash(_)
trim_start_matches_slash(s) ==
    IF s # <<>> /\ Head(s) = "/" THEN trim_start_matches_slash(Tail(s)) ELSE s

(***************************************************************************)
(* glob::Pattern, as ColumnFilter uses it: Pattern::new and                *)
(* Pattern::matches (MatchOptions::new(): case sensitive, no literal       *)
(* separator required, no literal leading dot required).  The tokens are   *)
(* Char, AnyChar, AnySequence and AnyRecursiveSequence: the model's        *)
(* patterns hold no '['.                                                   *)
(***************************************************************************)
PatternError == "PatternError"

AnySequence == [t |-> "AnySequence"]
AnyRecursiveSequence == [t |-> "AnyRecursiveSequence"]
AnyChar == [t |-> "AnyChar"]
Char(c) == [t |-> "Char", c |-> c]

is_separator(c) == c = "/"

\* the number of '*' from position i on
RECURSIVE StarRun(_, _)
StarRun(chars, i) ==
    IF i <= Len(chars) /\ chars[i] = "*" THEN 1 + StarRun(chars, i + 1) ELSE 0

\* Pattern::new from position i, with the tokens found so far
RECURSIVE Pattern_parse(_, _, _)
Pattern_parse(chars, i, tokens) ==
    IF i > Len(chars) THEN tokens
    ELSE IF chars[i] = "*" THEN
        LET count == StarRun(chars, i)
            j == i + count      \* the first position after the stars
        IN  IF count > 2 THEN PatternError
            ELSE IF count = 2 THEN
                IF i = 1 \/ is_separator(chars[i - 1]) THEN
                    LET push == IF Len(tokens) > 1
                                   /\ tokens[Len(tokens)] = AnyRecursiveSequence
                                THEN tokens
                                ELSE Append(tokens, AnyRecursiveSequence)
                    IN  IF j <= Len(chars) /\ is_separator(chars[j])
                        THEN Pattern_parse(chars, j + 1, push)
                        ELSE IF j = Len(chars) + 1
                        THEN Pattern_parse(chars, j, push)
                        ELSE PatternError
                ELSE PatternError
            ELSE Pattern_parse(chars, j, Append(tokens, AnySequence))
    ELSE IF chars[i] = "?" THEN Pattern_parse(chars, i + 1, Append(tokens, AnyChar))
    ELSE Pattern_parse(chars, i + 1, Append(tokens, Char(chars[i])))

Pattern_new(chars) == Pattern_parse(chars, 1, <<>>)

Match == "Match"
SubPatternDoesntMatch == "SubPatternDoesntMatch"
EntirePatternDoesntMatch == "EntirePatternDoesntMatch"

\* Pattern::matches_from: tokens from i on against file from j on.
\* wild_loop is the `while let Some(c) = file.next()` of a wildcard token.
RECURSIVE matches_from(_, _, _, _, _)
RECURSIVE wild_loop(_, _, _, _, _)
matches_from(tokens, follows_separator, file, i, j) ==
    IF i > Len(tokens) THEN
        IF j > Len(file) THEN Match ELSE SubPatternDoesntMatch
    ELSE IF tokens[i].t \in {"AnySequence", "AnyRecursiveSequence"} THEN
        LET empty == matches_from(tokens, follows_separator, file, i + 1, j)
        IN  IF empty # SubPatternDoesntMatch THEN empty
            ELSE wild_loop(tokens, follows_separator, file, i, j)
    ELSE IF j > Len(file) THEN EntirePatternDoesntMatch
    ELSE IF tokens[i].t = "Char" /\ file[j] # tokens[i].c THEN SubPatternDoesntMatch
    ELSE matches_from(tokens, is_separator(file[j]), file, i + 1, j + 1)

wild_loop(tokens, follows_separator, file, i, j) ==
    IF j > Len(file)
    THEN matches_from(tokens, follows_separator, file, i + 1, j)
    ELSE LET sep == is_separator(file[j])
         IN  IF tokens[i].t = "AnyRecursiveSequence" /\ ~sep
             THEN wild_loop(tokens, sep, file, i, j + 1)
             ELSE LET m == matches_from(tokens, sep, file, i + 1, j + 1)
                  IN  IF m # SubPatternDoesntMatch THEN m
                      ELSE wild_loop(tokens, sep, file, i, j + 1)

Pattern_matches(tokens, str) == matches_from(tokens, TRUE, str, 1, 1) = Match

(***************************************************************************)
(* ColumnFilter.                                                           *)
(***************************************************************************)
is_alphabetic_name(s) == \E i \in 1..Len(s) : s[i] \in Letters

normalize_pattern(pattern_str) ==
    LET trimmed == trim(pattern_str)
        after_prefix == SubSeq(trimmed, 4, Len(trimmed))
    IN  IF trimmed = <<>> THEN trimmed
        ELSE IF contains(trimmed, "*") THEN
            IF /\ starts_with(trimmed, <<"*", "*", "/">>)
               /\ ~ends_with(trimmed, <<"/", "*", "*">>)
               /\ ~ends_with(trimmed, <<"/", "*">>)
               /\ ~contains(after_prefix, "/")
               /\ is_alphabetic_name(after_prefix)
            THEN <<"*", "*", "/", "*", "/">> \o after_prefix
            ELSE trimmed
        ELSE IF ~contains(trimmed, "/")
        THEN <<"*", "*", "/">> \o trimmed \o <<"/", "*", "*">>
        ELSE trimmed

\* Result<ColumnFilter, String>: Ok(v) holds the filter, a record with its
\* compiled pattern
ColumnFilter_new(pattern_str) ==
    LET pattern == Pattern_new(normalize_pattern(pattern_str))
    IN  IF pattern = PatternError THEN [ok |-> FALSE]
        ELSE [ok |-> TRUE, v |-> [pattern |-> pattern]]

\* a variant without the case of the root route
\* a variant that writes the column before the stream
get_path_string_column_first(route, stream_name, col_name) ==
    IF route = <<>> THEN <<"/">> \o col_name \o <<"/">> \o stream_name
    ELSE DeviceRoute_to_string(route) \o <<"/">> \o col_name \o <<"/">> \o stream_name

get_path_string_any_route(route, stream_name, col_name) ==
    <<"/">> \o trim_start_matches_slash(DeviceRoute_to_string(route))
        \o <<"/">> \o stream_name \o <<"/">> \o col_name

get_path_string(route, stream_name, col_name) ==
    LET clean_route == trim_start_matches_slash(DeviceRoute_to_string(route))
    IN  IF clean_route = <<>>
        THEN <<"/">> \o stream_name \o <<"/">> \o col_name
        ELSE <<"/">> \o clean_route \o <<"/">> \o stream_name \o <<"/">> \o col_name

matches(f, route, stream_name, col_name) ==
    Pattern_matches(f.pattern, get_path_string(route, stream_name, col_name))

(***************************************************************************)
(* Samples, as the appender reads them.  A sample carries its number n,    *)
(* its timestamp_end(), its optional boundary, the stream name of its      *)
(* stream metadata, the session_id of its device metadata and its          *)
(* columns; a column carries its descriptor                                *)
(* (index, name, buffer type of its data type) and the kind of its value.  *)
(* The value of every column of sample n is modelled as n, so that a row   *)
(* of a column dataset tells the sample it came from.                      *)
(***************************************************************************)
\* Option: None, or Some(v)
None == [some |-> FALSE]
Some(v) == [some |-> TRUE, v |-> v]

Reasons == {"Initial", "SessionChanged", "StreamMetadataChanged", "SegmentChanged",
            "ColumnDescChanged", "TimeWentBackward", "SampleGap"}

\* a Boundary: its reason; a ColumnDescChanged boundary also says whether
\* the descriptor change is structural
Boundary(reason, structural) == [reason |-> reason, structural |-> structural]

\* Option<Boundary>
Boundaries ==
    {None} \cup {Some(Boundary(r, FALSE)) : r \in Reasons}
           \cup {Some(Boundary("ColumnDescChanged", TRUE))}

\* Boundary::is_continuous
Boundary_is_continuous(b) ==
    \/ b.reason = "Initial"
    \/ b.reason = "ColumnDescChanged" /\ ~b.structural

\* Boundary::is_monotonic
Boundary_is_monotonic(b) == b.reason # "TimeWentBackward"

\* Sample::is_continuous, Sample::is_monotonic: a sample without a boundary
\* is both
is_continuous(sample) ==
    ~sample.boundary.some \/ Boundary_is_continuous(sample.boundary.v)

is_monotonic(sample) ==
    ~sample.boundary.some \/ Boundary_is_monotonic(sample.boundary.v)

(***************************************************************************)
(* PendingBatch.                                                           *)
(***************************************************************************)
EmptyMap == [k \in {} |-> 0]

PendingBatch_new(sample) ==
    [sample_numbers  |-> <<>>,
     timestamps      |-> <<>>,
     columns         |-> EmptyMap,
     stream_name     |-> sample.stream_name,
     column_metadata |-> EmptyMap,
     session_id      |-> sample.session_id,
     is_first_chunk  |-> TRUE]

PendingBatch_len(batch) == Len(batch.timestamps)

PendingBatch_is_empty(batch) == batch.timestamps = <<>>

\* entry(k).or_insert_with(v) of a HashMap
or_insert(map, k, v) ==
    IF k \in DOMAIN map THEN map
    ELSE [j \in DOMAIN map \cup {k} |-> IF j = k THEN v ELSE map[j]]

\* the body of push's `for col in &sample.columns`, for one column
push_column(batch, sample, col) ==
    LET col_id == col.index
        meta == or_insert(batch.column_metadata, col_id, [name |-> col.name])
        cols == or_insert(batch.columns, col_id, [variant |-> col.btype, data |-> <<>>])
        v == cols[col_id].variant
        pushed == \/ v = "Float" /\ col.vtype \in {"Float", "Int"}
                  \/ v = "Int" /\ col.vtype = "Int"
                  \/ v = "UInt" /\ col.vtype = "UInt"
    IN  [batch EXCEPT
            !.column_metadata = meta,
            !.columns = IF pushed
                        THEN [cols EXCEPT ![col_id].data = Append(@, sample.n)]
                        ELSE cols]

RECURSIVE push_columns(_, _, _)
push_columns(batch, sample, i) ==
    IF i > Len(sample.columns) THEN batch
    ELSE push_columns(push_column(batch, sample, sample.columns[i]), sample, i + 1)

PendingBatch_push(batch, sample) ==
    push_columns(
        [batch EXCEPT !.sample_numbers = Append(@, sample.n),
                      !.timestamps = Append(@, sample.ts)],
        sample, 1)

\* drain: <<the batch returned, what is left in self>>
PendingBatch_drain(batch) ==
    << batch,
       [batch EXCEPT !.sample_numbers = <<>>,
                     !.timestamps = <<>>,
                     !.columns = EmptyMap,
                     !.column_metadata = EmptyMap,
                     !.is_first_chunk = FALSE] >>

(***************************************************************************)
(* Hdf5Appender.  The fields of the struct are the variables below; the    *)
(* operators take and return the struct as a record `self`.  An operation  *)
(* that iterates over a HashMap (the pending batches, the columns of a     *)
(* batch) returns the set of its possible outcomes, one per iteration      *)
(* order.                                                                  *)
(*                                                                         *)
(* file maps the path of every group that holds data to                    *)
(*   attrs: the writes of the per-group metadata attributes, in order      *)
(*          (each with the run_id and session_id attributes it wrote),     *)
(*   ds:    dataset name -> rows.                                          *)
(***************************************************************************)
VARIABLES
    file,
    pending,        \* HashMap<StreamKey, PendingBatch>
    filter,         \* Option<ColumnFilter>
    batch_size,
    split_policy,   \* "Continuous" or "Monotonic"
    split_level,    \* "None", "PerStream", "PerDevice" or "Global"
    stream_runs,    \* HashMap<StreamKey, RunId>
    device_runs,    \* HashMap<DeviceRoute, RunId>
    global_run,
    stats,          \* ExportStats
    up,             \* firmware_upgrade: its position and its locals (see
                    \* the firmware uploader below); NotUploading in the
                    \* specifications of the appender
    io,             \* the file operations: budget, how many succeed before
                    \* one fails (None: none fails, as in every
                    \* specification but SpecIo); err, whether the call in
                    \* progress has met a failure; late, whether a file
                    \* operation was attempted after the failure
    created,        \* the groups and datasets of the file in the order of
                    \* their creation, in the specification that records
                    \* it (SpecOrder)
    phase,          \* "open" until finish() has consumed the appender
    hist,           \* the write_sample calls made so far, in order
    arg,            \* the boundary of the last write_sample call, in the
                    \* specification that records it (SpecCalls); the key
                    \* and the group path of the last make_group_path call
                    \* in SpecPath; the pattern and the question asked of
                    \* the filter in SpecFilter
    tool            \* one run of tio-tool: its command line, its position
                    \* and its exit (see the commands below); NotRunning
                    \* in the other specifications

vars == <<file, pending, filter, batch_size, split_policy, split_level,
          stream_runs, device_runs, global_run, stats, io, created, phase, hist,
          arg, up, tool>>

\* no firmware upload is in progress
NotUploading == [pc |-> "idle"]

\* no run of tio-tool is in progress
NotRunning == [pc |-> "none"]

Self ==
    [file |-> file, pending |-> pending, filter |-> filter,
     batch_size |-> batch_size, split_policy |-> split_policy,
     split_level |-> split_level, stream_runs |-> stream_runs,
     device_runs |-> device_runs, global_run |-> global_run, stats |-> stats,
     io |-> io, created |-> created]

\* the orders in which a HashMap with key set S may be iterated
Orders(S) ==
    {ord \in [1..Cardinality(S) -> S] :
        \A i, j \in 1..Cardinality(S) : i # j => ord[i] # ord[j]}

\* map.get(k).copied().unwrap_or(d)
get_or(map, k, d) == IF k \in DOMAIN map THEN map[k] ELSE d

\* *map.entry(k).or_insert(0) += 1
increment(map, k) ==
    [j \in DOMAIN map \cup {k} |-> IF j = k THEN get_or(map, k, 0) + 1 ELSE map[j]]

\* {:06}
RECURSIVE pad6(_)
pad6(digits) == IF Len(digits) >= 6 THEN digits ELSE pad6("0" \o digits)

format_run(run_id) == "run_" \o pad6(ToString(run_id))

with_options(filter_, batch_size_, split_policy_, split_level_) ==
    [file |-> EmptyMap, pending |-> EmptyMap, filter |-> filter_,
     batch_size |-> batch_size_, split_policy |-> split_policy_,
     split_level |-> split_level_, stream_runs |-> EmptyMap,
     device_runs |-> EmptyMap, global_run |-> 0,
     stats |-> [total_samples |-> 0, start_time |-> None, end_time |-> None,
                streams_written |-> {}],
     io |-> [budget |-> None, err |-> FALSE, late |-> FALSE],
     created |-> <<>>]

\* a variant without the case of the empty route text
make_group_path_with_route(self, route_str, stream_name, key) ==
    CASE self.split_level = "None" -> "/" \o route_str \o "/" \o stream_name
      [] self.split_level = "PerStream" ->
            "/" \o route_str \o "/" \o stream_name \o "/"
                \o format_run(get_or(self.stream_runs, key, 0))
      [] self.split_level = "PerDevice" ->
            "/" \o route_str \o "/" \o format_run(get_or(self.device_runs, key.route, 0))
                \o "/" \o stream_name
      [] self.split_level = "Global" ->
            "/" \o format_run(self.global_run) \o "/" \o route_str \o "/" \o stream_name

make_group_path(self, route_str, stream_name, key) ==
    CASE self.split_level = "None" ->
            IF route_str = "" THEN "/" \o stream_name
            ELSE "/" \o route_str \o "/" \o stream_name
      [] self.split_level = "PerStream" ->
            LET run_id == get_or(self.stream_runs, key, 0)
            IN  IF route_str = "" THEN "/" \o stream_name \o "/" \o format_run(run_id)
                ELSE "/" \o route_str \o "/" \o stream_name \o "/" \o format_run(run_id)
      [] self.split_level = "PerDevice" ->
            LET run_id == get_or(self.device_runs, key.route, 0)
            IN  IF route_str = "" THEN "/" \o format_run(run_id) \o "/" \o stream_name
                ELSE "/" \o route_str \o "/" \o format_run(run_id) \o "/" \o stream_name
      [] self.split_level = "Global" ->
            IF route_str = ""
            THEN "/" \o format_run(self.global_run) \o "/" \o stream_name
            ELSE "/" \o format_run(self.global_run) \o "/" \o route_str
                     \o "/" \o stream_name

get_run_id(self, key) ==
    CASE self.split_level = "None" -> None
      [] self.split_level = "PerStream" -> Some(get_or(self.stream_runs, key, 0))
      [] self.split_level = "PerDevice" -> Some(get_or(self.device_runs, key.route, 0))
      [] self.split_level = "Global" -> Some(self.global_run)

\* One operation on the file (hdf5 `...?`): it fails when the budget is
\* used up and leaves the appender as it was, with the error to return;
\* otherwise it leaves the appender as done.  An operation made when an error
\* is already there is late.
file_op(self, done) ==
    LET late == self.io.late \/ self.io.err
    IN  IF self.io.budget.some /\ self.io.budget.v = 0
        THEN [self EXCEPT !.io = [budget |-> None, err |-> TRUE, late |-> late]]
        ELSE [done EXCEPT !.io =
                [budget |-> IF self.io.budget.some
                            THEN Some(self.io.budget.v - 1) ELSE None,
                 err |-> self.io.err, late |-> late]]

\* `s?` followed by F: the appender s as it is when it carries an error,
\* what F makes of it otherwise
and_then(s, F(_)) ==
    CHOOSE r \in {IF x.io.err THEN x ELSE F(x) : x \in {s}} : TRUE

\* the data group at path, created empty when the file does not hold it
ensure_group(self, path) ==
    IF path \in DOMAIN self.file THEN self
    ELSE file_op(self,
            [self EXCEPT !.file =
                [g \in DOMAIN self.file \cup {path} |->
                    IF g = path THEN [attrs |-> <<>>, ds |-> EmptyMap]
                    ELSE self.file[g]],
                         !.created = Append(@, path)])

\* attrs lists the completed writes of the attributes of a group
write_metadata_attributes(self, group_path, batch, key) ==
    file_op(self,
        [self EXCEPT !.file[group_path].attrs =
            Append(@, [run_id |-> get_run_id(self, key),
                       session_id |-> batch.session_id])])

\* a variant that writes the new rows from row 0
append_dataset_from_start(self, group_path, name, data) ==
    LET ds == self.file[group_path].ds
        current == IF name \in DOMAIN ds THEN ds[name] ELSE <<>>
    IN  [self EXCEPT !.file[group_path].ds =
            [d \in DOMAIN ds \cup {name} |->
                IF d = name
                THEN data \o SubSeq(current, Len(data) + 1, Len(current))
                ELSE ds[d]]]

\* a variant that puts the new rows before the stored ones
append_dataset_in_front(self, group_path, name, data) ==
    LET ds == self.file[group_path].ds
        current == IF name \in DOMAIN ds THEN ds[name] ELSE <<>>
    IN  [self EXCEPT !.file[group_path].ds =
            [d \in DOMAIN ds \cup {name} |->
                IF d = name THEN data \o current ELSE ds[d]]]

\* a row that resize has added and write_slice has not written
FillValue == 0

\* the dataset name of the group holds rows
with_rows(self, group_path, name, rows) ==
    LET ds == self.file[group_path].ds
    IN  [self EXCEPT !.file[group_path].ds =
            [d \in DOMAIN ds \cup {name} |-> IF d = name THEN rows ELSE ds[d]]]

\* `if !self.datasets.contains_key(&full_path) { ... }`: the group is opened,
\* the dataset created empty and its attributes written
create_dataset(self, group_path, name) ==
    LET full_path == group_path \o "/" \o name
    IN  and_then(file_op(self, self), LAMBDA s1 :
        and_then(file_op(s1, [with_rows(s1, group_path, name, <<>>)
                                 EXCEPT !.created = Append(@, full_path)]),
                 LAMBDA s2 : file_op(s2, s2)))

\* the dataset is created empty when the group does not hold it; it is
\* resized and data is written after the rows already there
append_dataset(self, group_path, name, data) ==
    and_then(IF name \in DOMAIN self.file[group_path].ds THEN self
             ELSE create_dataset(self, group_path, name), LAMBDA s1 :
    and_then(file_op(s1, with_rows(s1, group_path, name,
                                   s1.file[group_path].ds[name]
                                       \o [i \in 1..Len(data) |-> FillValue])),
             LAMBDA s2 :
                file_op(s2, with_rows(s2, group_path, name,
                                      s1.file[group_path].ds[name] \o data))))

\* a variant that keeps every column that has metadata
column_is_valid_unfiltered(self, key, batch, col_id) ==
    col_id \in DOMAIN batch.column_metadata

\* the filter_map closure of write_batch: is the column kept?
column_is_valid(self, key, batch, col_id) ==
    /\ col_id \in DOMAIN batch.column_metadata
    /\ \/ ~self.filter.some
       \/ matches(self.filter.v, key.route, batch.stream_name,
                  batch.column_metadata[col_id].name)

\* `for (_, col_batch, meta) in valid_columns`
RECURSIVE append_columns(_, _, _, _, _)
append_columns(self, group_path, batch, valid_columns, i) ==
    IF i > Len(valid_columns) THEN self
    ELSE LET col_id == valid_columns[i]
         IN  and_then(append_dataset(self, group_path,
                                     Str(batch.column_metadata[col_id].name),
                                     batch.columns[col_id].data),
                      LAMBDA s1 :
                        append_columns(s1, group_path, batch, valid_columns, i + 1))

min(a, b) == IF a <= b THEN a ELSE b
max(a, b) == IF a >= b THEN a ELSE b

\* a variant that counts the batches stored, not their samples
update_stats_per_batch(stats_, batch, route_str, stream_name) ==
    LET first == batch.timestamps[1]
        last == batch.timestamps[Len(batch.timestamps)]
        stream_path == IF route_str = "" THEN "/" \o stream_name
                       ELSE "/" \o route_str \o "/" \o stream_name
    IN  [total_samples |-> stats_.total_samples + 1,
         start_time |-> Some(IF stats_.start_time.some
                             THEN min(stats_.start_time.v, first) ELSE first),
         end_time |-> Some(IF stats_.end_time.some
                           THEN max(stats_.end_time.v, last) ELSE last),
         streams_written |-> stats_.streams_written \cup {stream_path}]

update_stats(stats_, batch, route_str, stream_name) ==
    LET first == batch.timestamps[1]
        last == batch.timestamps[Len(batch.timestamps)]
        stream_path == IF route_str = "" THEN "/" \o stream_name
                       ELSE "/" \o route_str \o "/" \o stream_name
    IN  [total_samples |-> stats_.total_samples + PendingBatch_len(batch),
         start_time |-> Some(IF stats_.start_time.some
                             THEN min(stats_.start_time.v, first) ELSE first),
         end_time |-> Some(IF stats_.end_time.some
                           THEN max(stats_.end_time.v, last) ELSE last),
         streams_written |-> stats_.streams_written \cup {stream_path}]

\* write_batch with valid_columns collected in the given order
write_batch_in_order(self, key, batch, valid_columns) ==
    LET route_str == Str(trim_start_matches_slash(DeviceRoute_to_string(key.route)))
        stream_name == Str(batch.stream_name)
        group_path == make_group_path(self, route_str, stream_name, key)
    IN  and_then(ensure_group(self, group_path), LAMBDA s0 :
        and_then(file_op(s0, s0), LAMBDA s1 :
        and_then(IF batch.is_first_chunk
                 THEN write_metadata_attributes(s1, group_path, batch, key)
                 ELSE s1, LAMBDA s2 :
        and_then(append_dataset(s2, group_path, "sample_number",
                                batch.sample_numbers), LAMBDA s3 :
        and_then(append_dataset(s3, group_path, "time", batch.timestamps),
                 LAMBDA s4 :
        and_then(append_columns(s4, group_path, batch, valid_columns, 1),
                 LAMBDA s5 :
            [s5 EXCEPT !.stats =
                update_stats(@, batch, route_str, stream_name)]))))))

\* a variant that writes time and sample_number also when no column is kept
write_batch_always(self, key, batch) ==
    IF PendingBatch_is_empty(batch) THEN {self}
    ELSE LET valid == {c \in DOMAIN batch.columns : column_is_valid(self, key, batch, c)}
         IN  {write_batch_in_order(self, key, batch, ord) : ord \in Orders(valid)}

write_batch(self, key, batch) ==
    IF PendingBatch_is_empty(batch) THEN {self}
    ELSE LET valid == {c \in DOMAIN batch.columns : column_is_valid(self, key, batch, c)}
         IN  IF valid = {} THEN {self}
             ELSE {write_batch_in_order(self, key, batch, ord) : ord \in Orders(valid)}

flush_stream(self, key) ==
    IF key \in DOMAIN self.pending /\ ~PendingBatch_is_empty(self.pending[key])
    THEN LET d == PendingBatch_drain(self.pending[key])
         IN  write_batch([self EXCEPT !.pending[key] = d[2]], key, d[1])
    ELSE {self}

\* `if let Some(batch) = self.pending.get_mut(key) { batch.is_first_chunk = true }`
set_first_chunk(self, key) ==
    IF key \in DOMAIN self.pending
    THEN [self EXCEPT !.pending[key].is_first_chunk = TRUE]
    ELSE self

\* `for key in keys { flush_stream; is_first_chunk = true }` from keys[i] on,
\* from each of the states in selves
RECURSIVE flush_and_mark_each(_, _, _)
flush_and_mark_each(selves, keys, i) ==
    IF i > Len(keys) THEN selves
    ELSE flush_and_mark_each(
            UNION {IF s.io.err THEN {s}
                   ELSE {IF t.io.err THEN t ELSE set_first_chunk(t, keys[i]) :
                            t \in flush_stream(s, keys[i])} :
                   s \in selves},
            keys, i + 1)

\* a variant that forgets the route: it flushes the streams of every device
flush_all_for_device_any_route(self, route) ==
    UNION {flush_and_mark_each({self}, keys, 1) : keys \in Orders(DOMAIN self.pending)}

flush_all_for_device(self, route) ==
    UNION {flush_and_mark_each({self}, keys, 1) :
           keys \in Orders({k \in DOMAIN self.pending : k.route = route})}

flush_all(self) ==
    UNION {flush_and_mark_each({self}, keys, 1) : keys \in Orders(DOMAIN self.pending)}

\* a variant that starts the new run before it flushes
handle_discontinuity_run_first(self, key) ==
    CASE self.split_level = "None" -> flush_stream(self, key)
      [] self.split_level = "PerStream" ->
            {set_first_chunk(u, key) :
                u \in flush_stream([self EXCEPT !.stream_runs = increment(@, key)], key)}
      [] self.split_level = "PerDevice" ->
            flush_all_for_device(
                [self EXCEPT !.device_runs = increment(@, key.route)], key.route)
      [] self.split_level = "Global" ->
            flush_all([self EXCEPT !.global_run = @ + 1])

\* a variant whose Global split flushes the stream of the sample only
handle_discontinuity_own_stream(self, key) ==
    CASE self.split_level = "None" -> flush_stream(self, key)
      [] self.split_level = "PerStream" ->
            {[t EXCEPT !.stream_runs = increment(@, key)] :
                t \in {set_first_chunk(u, key) : u \in flush_stream(self, key)}}
      [] self.split_level = "PerDevice" ->
            {[t EXCEPT !.device_runs = increment(@, key.route)] :
                t \in flush_all_for_device(self, key.route)}
      [] self.split_level = "Global" ->
            {[t EXCEPT !.global_run = @ + 1] :
                t \in {set_first_chunk(u, key) : u \in flush_stream(self, key)}}

\* a variant that counts a run of the stream at every level but PerDevice
\* and Global
handle_discontinuity_counts_stream(self, key) ==
    CASE self.split_level \in {"None", "PerStream"} ->
            {[t EXCEPT !.stream_runs = increment(@, key)] :
                t \in {set_first_chunk(u, key) : u \in flush_stream(self, key)}}
      [] self.split_level = "PerDevice" ->
            {[t EXCEPT !.device_runs = increment(@, key.route)] :
                t \in flush_all_for_device(self, key.route)}
      [] self.split_level = "Global" ->
            {[t EXCEPT !.global_run = @ + 1] : t \in flush_all(self)}

handle_discontinuity(self, key) ==
    CASE self.split_level = "None" -> flush_stream(self, key)
      [] self.split_level = "PerStream" ->
            {IF u.io.err THEN u
             ELSE [set_first_chunk(u, key) EXCEPT !.stream_runs = increment(@, key)] :
                u \in flush_stream(self, key)}
      [] self.split_level = "PerDevice" ->
            {IF t.io.err THEN t
             ELSE [t EXCEPT !.device_runs = increment(@, key.route)] :
                t \in flush_all_for_device(self, key.route)}
      [] self.split_level = "Global" ->
            {IF t.io.err THEN t ELSE [t EXCEPT !.global_run = @ + 1] :
                t \in flush_all(self)}

\* a variant that ignores the policy
should_split_any_discontinuity(self, sample) == ~is_continuous(sample)

should_split(self, sample) ==
    CASE self.split_policy = "Continuous" -> ~is_continuous(sample)
      [] self.split_policy = "Monotonic" -> ~is_monotonic(sample)

\* a variant that flushes only when the batch has outgrown batch_size
buffer_sample_late(self, sample, key) ==
    LET s1 == IF key \in DOMAIN self.pending THEN self
              ELSE [self EXCEPT !.pending =
                      [k \in DOMAIN self.pending \cup {key} |->
                          IF k = key THEN PendingBatch_new(sample)
                          ELSE self.pending[k]]]
        s2 == [s1 EXCEPT !.pending[key] = PendingBatch_push(@, sample)]
    IN  IF PendingBatch_len(s2.pending[key]) > s2.batch_size
        THEN flush_stream(s2, key)
        ELSE {s2}

\* write_sample after the split decision: insert, push, flush a full batch
buffer_sample(self, sample, key) ==
    LET s1 == IF key \in DOMAIN self.pending THEN self
              ELSE [self EXCEPT !.pending =
                      [k \in DOMAIN self.pending \cup {key} |->
                          IF k = key THEN PendingBatch_new(sample)
                          ELSE self.pending[k]]]
        s2 == [s1 EXCEPT !.pending[key] = PendingBatch_push(@, sample)]
    IN  IF PendingBatch_len(s2.pending[key]) >= s2.batch_size
        THEN flush_stream(s2, key)
        ELSE {s2}

write_sample(self, sample, key) ==
    LET after_split == IF should_split(self, sample)
                       THEN handle_discontinuity(self, key)
                       ELSE {self}
    IN  UNION {IF s.io.err THEN {s} ELSE buffer_sample(s, sample, key) :
                  s \in after_split}

\* a variant of the loop of finish that goes on to the other keys after an error
RECURSIVE flush_each_regardless(_, _, _)
flush_each_regardless(selves, keys, i) ==
    IF i > Len(keys) THEN selves
    ELSE flush_each_regardless(UNION {flush_stream(s, keys[i]) : s \in selves},
                               keys, i + 1)

\* `for key in keys { flush_stream }` from keys[i] on
RECURSIVE flush_each(_, _, _)
flush_each(selves, keys, i) ==
    IF i > Len(keys) THEN selves
    ELSE flush_each(UNION {IF s.io.err THEN {s} ELSE flush_stream(s, keys[i]) :
                              s \in selves},
                    keys, i + 1)

\* a variant that leaves the pending batches where they are
finish_without_flush(self) == {self}

finish(self) ==
    UNION {flush_each({self}, keys, 1) : keys \in Orders(DOMAIN self.pending)}

(***************************************************************************)
(* The inputs of the model: the stream keys, the stream each key names,    *)
(* the column layouts its samples come with, the filters log-hdf may       *)
(* configure.                                                              *)
(***************************************************************************)
StreamKey(route, stream_id) == [route |-> route, stream_id |-> stream_id]

Keys == {StreamKey(<<>>, 1), StreamKey(<<>>, 2), StreamKey(<<0>>, 1)}

Routes == {k.route : k \in Keys}

\* sample.stream.name
StreamNameOf(key) == IF key.stream_id = 1 THEN <<"a">> ELSE <<"b">>

Column(index, name) ==
    [index |-> index, name |-> name, btype |-> "Float", vtype |-> "Float"]

\* sample.columns
Layouts(key) ==
    IF key = StreamKey(<<>>, 1)
    THEN {<<Column(0, <<"x">>), Column(1, <<"y">>)>>, <<Column(0, <<"x">>)>>}
    ELSE IF key = StreamKey(<<>>, 2)
    THEN {<<Column(0, <<"x">>)>>}
    ELSE {<<Column(0, <<"x">>), Column(1, <<"y">>)>>}

\* the --filter patterns: none, or column y anywhere
FilterPatterns == {<<"*", "*", "/", "y">>}

Filters ==
    {None} \cup {Some(ColumnFilter_new(p).v) :
                    p \in {q \in FilterPatterns : ColumnFilter_new(q).ok}}

\* the batch sizes: a flush on every sample, and the largest
BatchSizes == {1, MaxBatchSize}

SplitPolicies == {"Continuous", "Monotonic"}
SplitLevels == {"None", "PerStream", "PerDevice", "Global"}

\* the segment every sample refers to
Segment == [start_time |-> 0, sample_n_offset |-> 0, decimation |-> 1, sampling_rate |-> 1]

\* Sample::timestamp_end
timestamp_end(n, segment) ==
    segment.start_time
        + ((n + 1 - segment.sample_n_offset) * segment.decimation) \div segment.sampling_rate

\* the samples of key in the calls made so far
SamplesOf(h, key) == SelectSeq(h, LAMBDA e : e.key = key)

MakeSample(key, boundary, columns) ==
    LET n == Len(SamplesOf(hist, key))
    IN  [n |-> n, ts |-> timestamp_end(n, Segment), boundary |-> boundary,
         stream_name |-> StreamNameOf(key), columns |-> columns,
         session_id |-> 0]

(***************************************************************************)
(* The state machine: an appender is constructed, receives samples and is  *)
(* finished.                                                               *)
(***************************************************************************)
Adopt(self) ==
    /\ file' = self.file
    /\ pending' = self.pending
    /\ stream_runs' = self.stream_runs
    /\ device_runs' = self.device_runs
    /\ global_run' = self.global_run
    /\ stats' = self.stats
    /\ io' = self.io
    /\ UNCHANGED <<filter, batch_size, split_policy, split_level, created, up, tool>>

\* the same, keeping the order of creation too
AdoptInOrder(self) ==
    /\ file' = self.file
    /\ pending' = self.pending
    /\ stream_runs' = self.stream_runs
    /\ device_runs' = self.device_runs
    /\ global_run' = self.global_run
    /\ stats' = self.stats
    /\ io' = self.io
    /\ created' = self.created
    /\ UNCHANGED <<filter, batch_size, split_policy, split_level, up, tool>>

\* budgets: how many file operations succeed before one fails, if any does
InitOn(filters, budgets) ==
    /\ \E f \in filters, b \in BatchSizes, p \in SplitPolicies, l \in SplitLevels,
          budget \in budgets :
        LET self == [with_options(f, b, p, l) EXCEPT !.io.budget = budget]
        IN  /\ file = self.file
            /\ pending = self.pending
            /\ filter = self.filter
            /\ batch_size = self.batch_size
            /\ split_policy = self.split_policy
            /\ split_level = self.split_level
            /\ stream_runs = self.stream_runs
            /\ device_runs = self.device_runs
            /\ global_run = self.global_run
            /\ stats = self.stats
            /\ io = self.io
            /\ created = self.created
    /\ phase = "open"
    /\ hist = <<>>
    /\ arg = None
    /\ up = NotUploading
    /\ tool = NotRunning

InitWith(filters) == InitOn(filters, {None})

Init == InitWith(Filters)

WriteSample(key, boundary, columns, recorded) ==
    /\ phase = "open"
    /\ Len(hist) < (IF recorded THEN MaxRecordedCalls ELSE MaxSamples)
    /\ LET sample == MakeSample(key, boundary, columns)
       IN  /\ \E self \in write_sample(Self, sample, key) : Adopt(self)
           /\ hist' = Append(hist, [key |-> key, n |-> sample.n,
                                    split |-> should_split(Self, sample),
                                    columns |-> columns])
    /\ arg' = IF recorded THEN boundary ELSE None
    /\ phase' = IF io'.err THEN "failed" ELSE phase

Finish ==
    /\ phase = "open"
    /\ \E self \in finish(Self) : Adopt(self)
    /\ phase' = IF io'.err THEN "failed" ELSE "finished"
    /\ UNCHANGED <<hist, arg>>

Next ==
    \/ \E key \in Keys, boundary \in Boundaries :
        \E columns \in Layouts(key) : WriteSample(key, boundary, columns, FALSE)
    \/ Finish

Spec == Init /\ [][Next]_vars

\* The same machine without a filter, recording the boundary of each call.
InitCalls == InitWith({None})

NextCalls ==
    \/ \E key \in Keys, boundary \in Boundaries :
        \E columns \in Layouts(key) : WriteSample(key, boundary, columns, TRUE)
    \/ Finish

SpecCalls == InitCalls /\ [][NextCalls]_vars

\* The same machine on a file of which one operation fails: log-hdf stops at
\* the first error a call returns (tio-tool.rs, `return Err(())`).
InitIo == InitOn({None}, {Some(k) : k \in 0..MaxFaultDelay})

WriteSampleIo(key, boundary, columns) ==
    /\ Len(hist) < MaxIoCalls
    /\ WriteSample(key, boundary, columns, FALSE)

\* no boundary, one that splits under the Continuous policy alone, one that
\* splits under both policies
IoBoundaries ==
    {None, Some(Boundary("SampleGap", FALSE)), Some(Boundary("TimeWentBackward", FALSE))}

NextIo ==
    \/ \E key \in Keys, boundary \in IoBoundaries :
        \E columns \in Layouts(key) : WriteSampleIo(key, boundary, columns)
    \/ Finish

SpecIo == InitIo /\ [][NextIo]_vars

\* The group path alone: an appender whose run counters have any of a few
\* values names the group of a batch of any of a few keys, as write_batch
\* does.
PathRoutes == {<<>>, <<0>>, <<0, 1>>, <<12, 3>>}
PathKeys == {StreamKey(route, id) : route \in PathRoutes, id \in {1, 2}}
RunIds == {0, 1, 9, 10, 999999, 1000000}

InitPath ==
    /\ \E l \in SplitLevels, id \in RunIds, empty \in BOOLEAN :
        LET self == with_options(None, 1, "Continuous", l)
        IN  /\ file = self.file
            /\ pending = self.pending
            /\ filter = self.filter
            /\ batch_size = self.batch_size
            /\ split_policy = self.split_policy
            /\ split_level = self.split_level
            /\ stream_runs = IF empty THEN EmptyMap ELSE [k \in PathKeys |-> id]
            /\ device_runs = IF empty THEN EmptyMap ELSE [r \in PathRoutes |-> id]
            /\ global_run = IF empty THEN 0 ELSE id
            /\ stats = self.stats
            /\ io = self.io
            /\ created = self.created
    /\ phase = "open"
    /\ hist = <<>>
    /\ arg = None
    /\ up = NotUploading
    /\ tool = NotRunning

MakeGroupPath(key) ==
    /\ LET route_str == Str(trim_start_matches_slash(DeviceRoute_to_string(key.route)))
           stream_name == Str(StreamNameOf(key))
       IN  arg' = Some([key |-> key,
                        path |-> make_group_path(Self, route_str, stream_name, key)])
    /\ UNCHANGED <<file, pending, filter, batch_size, split_policy, split_level,
                   stream_runs, device_runs, global_run, stats, io, created, phase,
                   hist, up, tool>>

NextPath == \E key \in PathKeys : MakeGroupPath(key)

SpecPath == InitPath /\ [][NextPath]_vars

\* The same machine without a filter, where the caller may let go of the
\* appender without calling finish.  Hdf5Appender has no Drop of its own:
\* its fields are dropped, the file handle is closed and the pending
\* batches are freed.  pending keeps what was freed.
Drop ==
    /\ phase = "open"
    /\ phase' = "dropped"
    /\ UNCHANGED <<file, pending, filter, batch_size, split_policy, split_level,
                   stream_runs, device_runs, global_run, stats, io, created, hist,
                   arg, up, tool>>

NextDrop ==
    \/ \E key \in Keys, boundary \in Boundaries :
        \E columns \in Layouts(key) : WriteSample(key, boundary, columns, FALSE)
    \/ Finish
    \/ Drop

SpecDrop == InitCalls /\ [][NextDrop]_vars

\* The same machine without a filter, recording the order in which groups
\* and datasets are created.
WriteSampleInOrder(key, boundary, columns) ==
    /\ phase = "open"
    /\ Len(hist) < MaxOrderedCalls
    /\ LET sample == MakeSample(key, boundary, columns)
       IN  /\ \E self \in write_sample(Self, sample, key) : AdoptInOrder(self)
           /\ hist' = Append(hist, [key |-> key, n |-> sample.n,
                                    split |-> should_split(Self, sample),
                                    columns |-> columns])
    /\ UNCHANGED <<phase, arg>>

FinishInOrder ==
    /\ phase = "open"
    /\ \E self \in finish(Self) : AdoptInOrder(self)
    /\ phase' = "finished"
    /\ UNCHANGED <<hist, arg>>

NextOrder ==
    \/ \E key \in Keys, boundary \in Boundaries :
        \E columns \in Layouts(key) : WriteSampleInOrder(key, boundary, columns)
    \/ FinishInOrder

SpecOrder == InitCalls /\ [][NextOrder]_vars

\* The same machine without a filter, where the sample number of each call
\* is any number: write_sample takes the samples as they come.  As the
\* parser emits them, a sample that does not continue the numbers of its
\* stream carries a boundary.
NumberBoundary(key, n, boundary) ==
    LET before == SamplesOf(hist, key)
    IN  (before # <<>> /\ n # before[Len(before)].n + 1) =>
            (boundary.some /\ boundary.v.reason # "Initial")

SampleAt(key, n, boundary, columns) ==
    [n |-> n, ts |-> timestamp_end(n, Segment), boundary |-> boundary,
     stream_name |-> StreamNameOf(key), columns |-> columns,
     session_id |-> 0]

WriteSampleAt(key, n, boundary, columns) ==
    /\ phase = "open"
    /\ Len(hist) < MaxNumberedCalls
    /\ NumberBoundary(key, n, boundary)
    /\ LET sample == SampleAt(key, n, boundary, columns)
       IN  /\ \E self \in write_sample(Self, sample, key) : Adopt(self)
           /\ hist' = Append(hist, [key |-> key, n |-> sample.n,
                                    split |-> should_split(Self, sample),
                                    columns |-> columns])
    /\ UNCHANGED <<phase, arg>>

NextNumbered ==
    \/ \E key \in Keys, n \in 0..MaxSampleNumber, boundary \in Boundaries :
        \E columns \in Layouts(key) : WriteSampleAt(key, n, boundary, columns)
    \/ Finish

SpecNumbered == InitCalls /\ [][NextNumbered]_vars

(***************************************************************************)
(* What the properties below speak of.                                     *)
(***************************************************************************)
\* the write_sample calls made for key, in order
KeySamples(key) == SamplesOf(hist, key)

\* the step is a write_sample call
IsWrite == hist' # hist

\* the call of a write_sample step: its key, and whether it triggered a split
Call == hist'[Len(hist')]

\* a split triggered by a sample of key k covers key k2
Covers(k, k2) ==
    CASE split_level \in {"None", "PerStream"} -> k2 = k
      [] split_level = "PerDevice" -> k2.route = k.route
      [] split_level = "Global" -> TRUE

\* the calls whose splits cover key, in order
ScopeCalls(key) == SelectSeq(hist, LAMBDA e : Covers(e.key, key))

\* of a sequence of calls, the number of split-triggering ones up to the i-th
TriggersUpTo(calls, i) == Cardinality({j \in 1..i : calls[j].split})

\* the sample numbers of the calls for key that have r split-triggering
\* calls up to and including them in calls, in call order
RECURSIVE NumbersInRun(_, _, _, _)
NumbersInRun(calls, key, r, i) ==
    IF i > Len(calls) THEN <<>>
    ELSE (IF calls[i].key = key /\ TriggersUpTo(calls, i) = r
          THEN <<calls[i].n>> ELSE <<>>)
            \o NumbersInRun(calls, key, r, i + 1)

\* the sample numbers of all calls for key, in call order
AllNumbers(key) == [i \in 1..Len(KeySamples(key)) |-> KeySamples(key)[i].n]

Elems(seq) == {seq[i] : i \in 1..Len(seq)}

\* the rows of dataset name of the group at path; none when there is no such
\* group or dataset
Rows(f, path, name) ==
    IF path \in DOMAIN f /\ name \in DOMAIN f[path].ds THEN f[path].ds[name] ELSE <<>>

\* the samples buffered for key
PendingNumbers(p, key) ==
    IF key \in DOMAIN p THEN p[key].sample_numbers ELSE <<>>

\* the pending batch of key, if any
PendingOf(p, key) == IF key \in DOMAIN p THEN Some(p[key]) ELSE None

\* a column name passes the filter for key
NamePasses(key, name) ==
    ~filter.some \/ matches(filter.v, key.route, StreamNameOf(key), name)

\* the call carries at least one column that passes the filter
CallPasses(call) ==
    \E i \in 1..Len(call.columns) : NamePasses(call.key, call.columns[i].name)

\* every sample of key carries at least one column that passes the filter
StreamPasses(key) ==
    \A i \in 1..Len(hist) : hist[i].key = key => CallPasses(hist[i])

\* /{route}/{stream} as the specification writes it: no route segment for
\* the root route
RouteText(route) == Str(route_to_string(route))

StreamPath(key) == RouteText(key.route) \o "/" \o Str(StreamNameOf(key))

\* run_{NNNNNN} for the run numbers of the model
RunName(r) == "run_00000" \o ToString(r)

PerStreamGroup(key, r) == StreamPath(key) \o "/" \o RunName(r)
PerDeviceGroup(key, r) ==
    RouteText(key.route) \o "/" \o RunName(r) \o "/" \o Str(StreamNameOf(key))
GlobalGroup(key, r) == "/" \o RunName(r) \o StreamPath(key)

Runs == 0..MaxSamples

(***************************************************************************)
(* C1.  With split level PerStream, every sample of a stream key K whose   *)
(* samples all carry a column that passes the filter is buffered for, or   *)
(* stored in, the run group of K whose number is the number of             *)
(* split-triggering samples of K up to and including it, and in no other;  *)
(* after finish() it is stored there.  A split on K changes neither the    *)
(* run counter nor the pending batch of another key.                       *)
(***************************************************************************)
C1_RunOfSample ==
    split_level = "PerStream" =>
        \A key \in Keys : StreamPasses(key) =>
            \A r \in Runs :
                Rows(file, PerStreamGroup(key, r), "sample_number")
                    \o (IF r = get_or(stream_runs, key, 0)
                        THEN PendingNumbers(pending, key) ELSE <<>>)
                = NumbersInRun(KeySamples(key), key, r, 1)

C1_Finished ==
    phase = "finished" => \A key \in Keys : PendingNumbers(pending, key) = <<>>

C1_OtherKeysUntouched ==
    (IsWrite /\ split_level = "PerStream" /\ Call.split) =>
        \A key \in Keys \ {Call.key} :
            /\ get_or(stream_runs', key, 0) = get_or(stream_runs, key, 0)
            /\ PendingOf(pending', key) = PendingOf(pending, key)

C1_PerStreamRuns ==
    [](C1_RunOfSample /\ C1_Finished) /\ [][C1_OtherKeysUntouched]_vars

\* samples 0, 1, 2 of the root stream a, of which sample 1 triggers a split:
\* run_000000 holds 0, run_000001 holds 1 and 2
C1_Witness ==
    /\ phase = "finished"
    /\ split_level = "PerStream"
    /\ batch_size > 1
    /\ filter.some
    /\ Rows(file, "/a/run_000000", "sample_number") = <<0>>
    /\ Rows(file, "/a/run_000001", "sample_number") = <<1, 2>>

(***************************************************************************)
(* What a write_sample step does with the batches and the run counters.    *)
(***************************************************************************)
\* the run counter the split level gives key
CurrentRun(sr, dr, gr, key) ==
    CASE split_level = "None" -> 0
      [] split_level = "PerStream" -> get_or(sr, key, 0)
      [] split_level = "PerDevice" -> get_or(dr, key.route, 0)
      [] split_level = "Global" -> gr

RunBefore(key) == CurrentRun(stream_runs, device_runs, global_run, key)
RunAfter(key) == CurrentRun(stream_runs', device_runs', global_run', key)

CountersUnchanged ==
    /\ stream_runs' = stream_runs
    /\ device_runs' = device_runs
    /\ global_run' = global_run

\* the group of key for run r at the split level of the appender
GroupOf(key, r) ==
    CASE split_level = "None" -> StreamPath(key)
      [] split_level = "PerStream" -> PerStreamGroup(key, r)
      [] split_level = "PerDevice" -> PerDeviceGroup(key, r)
      [] split_level = "Global" -> GlobalGroup(key, r)

\* the pending batch of key holds a column that passes the filter
BatchPasses(key) ==
    /\ key \in DOMAIN pending
    /\ \E c \in DOMAIN pending[key].columns :
            NamePasses(key, pending[key].column_metadata[c].name)

\* the step flushes what was pending for key: nothing of it is pending
\* afterwards, and if the batch holds a passing column its samples are
\* stored in the group of run r
FlushedInto(key, r) ==
    /\ Elems(PendingNumbers(pending', key)) \cap Elems(PendingNumbers(pending, key)) = {}
    /\ BatchPasses(key) =>
            Rows(file', GroupOf(key, r), "sample_number")
                = Rows(file, GroupOf(key, r), "sample_number")
                    \o PendingNumbers(pending, key)

\* the step buffers the sample of the call after what was pending for its
\* key, and flushes the batch if that fills it; no other key is touched
BufferedOnly ==
    /\ PendingNumbers(pending', Call.key) =
            IF Len(PendingNumbers(pending, Call.key)) + 1 >= batch_size
            THEN <<>>
            ELSE Append(PendingNumbers(pending, Call.key), Call.n)
    /\ \A key \in Keys \ {Call.key} :
            PendingOf(pending', key) = PendingOf(pending, key)

(***************************************************************************)
(* C2.  A write_sample call flushes and splits if and only if the policy   *)
(* is Continuous and the sample carries a non-continuous boundary, or the  *)
(* policy is Monotonic and the sample carries a TimeWentBackward boundary: *)
(* then what was pending for its key is flushed and, unless the level is   *)
(* None, the run counter of its scope grows by one; otherwise no run       *)
(* counter changes and nothing is flushed before the batch is full.        *)
(***************************************************************************)
NonContinuous(b) ==
    b.some /\ b.v.reason # "Initial"
           /\ ~(b.v.reason = "ColumnDescChanged" /\ ~b.v.structural)

WentBackward(b) == b.some /\ b.v.reason = "TimeWentBackward"

MustSplit(b) ==
    \/ split_policy = "Continuous" /\ NonContinuous(b)
    \/ split_policy = "Monotonic" /\ WentBackward(b)

C2_SplitStep ==
    /\ FlushedInto(Call.key, RunBefore(Call.key))
    /\ RunAfter(Call.key) = RunBefore(Call.key) + (IF split_level = "None" THEN 0 ELSE 1)

C2_SplitIffPolicy ==
    [][IsWrite => IF MustSplit(arg') THEN C2_SplitStep
                  ELSE CountersUnchanged /\ BufferedOnly]_vars

\* under Monotonic a sample with a SampleGap boundary follows a buffered one
\* and is buffered with it: the full batch goes to run 0
C2_Witness ==
    /\ split_policy = "Monotonic"
    /\ split_level = "PerStream"
    /\ arg = Some(Boundary("SampleGap", FALSE))
    /\ stream_runs = EmptyMap
    /\ Rows(file, "/a/run_000000", "sample_number") = <<0, 1>>

(***************************************************************************)
(* C3.  With split level PerDevice, a split-triggering sample on route R   *)
(* flushes what is pending for every key of route R into the run groups    *)
(* numbered with R's counter before the step, and R's counter grows by     *)
(* exactly one; the pending batches and the counters of the other routes   *)
(* stay as they are.  So every sample of a key of R is buffered for or     *)
(* stored in the run whose number is the number of split-triggering        *)
(* samples on R up to and including it (stored for certain when all        *)
(* samples of its stream carry a column that passes the filter).           *)
(***************************************************************************)
\* what is stored or pending for key in run r is, in order, among the
\* samples that belong to run r, and is all of them for a stream whose
\* samples all pass
RunHolds(key, r) ==
    LET held == Rows(file, GroupOf(key, r), "sample_number")
                    \o (IF r = CurrentRun(stream_runs, device_runs, global_run, key)
                        THEN PendingNumbers(pending, key) ELSE <<>>)
        due == NumbersInRun(ScopeCalls(key), key, r, 1)
    IN  /\ Elems(held) \subseteq Elems(due)
        /\ StreamPasses(key) => held = due

C3_RunOfSample ==
    split_level = "PerDevice" => \A key \in Keys, r \in Runs : RunHolds(key, r)

C3_SplitStep ==
    (IsWrite /\ split_level = "PerDevice" /\ Call.split) =>
        /\ \A key \in Keys :
                IF key.route = Call.key.route
                THEN FlushedInto(key, RunBefore(key))
                ELSE PendingOf(pending', key) = PendingOf(pending, key)
        /\ \A route \in Routes :
                get_or(device_runs', route, 0) =
                    get_or(device_runs, route, 0) + (IF route = Call.key.route THEN 1 ELSE 0)

C4_RunOfSample ==
    split_level = "Global" => \A key \in Keys, r \in Runs : RunHolds(key, r)

C4_SplitStep ==
    (IsWrite /\ split_level = "Global" /\ Call.split) =>
        /\ \A key \in Keys : FlushedInto(key, global_run)
        /\ global_run' = global_run + 1

C5_OneGroup ==
    split_level = "None" =>
        /\ DOMAIN file \subseteq {StreamPath(key) : key \in Keys}
        /\ \A key \in Keys : StreamPasses(key) =>
                Rows(file, StreamPath(key), "sample_number")
                    \o PendingNumbers(pending, key) = AllNumbers(key)

C5_SplitStep ==
    (IsWrite /\ split_level = "None" /\ Call.split) =>
        /\ CountersUnchanged
        /\ FlushedInto(Call.key, 0)
        /\ \A key \in Keys \ {Call.key} :
                /\ PendingOf(pending', key) = PendingOf(pending, key)
                /\ Rows(file', StreamPath(key), "sample_number")
                        = Rows(file, StreamPath(key), "sample_number")

RECURSIVE StoredFrom(_, _, _, _)
StoredFrom(f, key, name, r) ==
    IF r > MaxSamples THEN <<>>
    ELSE Rows(f, GroupOf(key, r), name) \o StoredFrom(f, key, name, r + 1)

\* the rows of dataset name of key, run group by run group in ascending run
\* number
StoredRows(f, key, name) ==
    IF split_level = "None" THEN Rows(f, StreamPath(key), name)
    ELSE StoredFrom(f, key, name, 0)

GroupsOf(key) == {GroupOf(key, r) : r \in Runs}

\* the step stores rows for key
Written(key) ==
    \E g \in GroupsOf(key) :
        Rows(file', g, "sample_number") # Rows(file, g, "sample_number")

(***************************************************************************)
(* C6.  The pending batch of every stream key always holds fewer than      *)
(* batch_size samples, and a step stores rows for a key only if it is      *)
(* finish, or a write_sample for that key that triggers a split or fills   *)
(* the batch to batch_size, or a write_sample for another key that         *)
(* triggers a split covering the key.                                      *)
(***************************************************************************)
C6_BelowBatchSize ==
    \A key \in DOMAIN pending : PendingBatch_len(pending[key]) < batch_size

C6_FlushTrigger ==
    \A key \in Keys : Written(key) =>
        \/ ~IsWrite /\ phase' = "finished"
        \/ /\ IsWrite /\ Call.key = key
           /\ \/ Call.split
              \/ Len(PendingNumbers(pending, key)) + 1 >= batch_size
        \/ IsWrite /\ Call.key # key /\ Call.split /\ Covers(Call.key, key)

C6_BatchSize == []C6_BelowBatchSize /\ [][C6_FlushTrigger]_vars

\* a sample of the root stream a is buffered, and the second one fills the
\* batch of two, which is written
C6_Witness ==
    /\ phase = "open"
    /\ batch_size = 2
    /\ Len(hist) = 2 /\ ~hist[1].split /\ ~hist[2].split
    /\ PendingNumbers(pending, StreamKey(<<>>, 1)) = <<>>
    /\ Rows(file, GroupOf(StreamKey(<<>>, 1), 0), "sample_number") = <<0, 1>>

(***************************************************************************)
(* C7.  After finish no sample is buffered, and for every stream key whose *)
(* samples all carry a column passing the filter the file holds, over all  *)
(* run groups of the key, as many rows as the key has samples, each        *)
(* sample number exactly once.                                             *)
(***************************************************************************)
Occurrences(seq, v) == Cardinality({i \in 1..Len(seq) : seq[i] = v})

C7_AllStored ==
    phase = "finished" =>
        \A key \in Keys :
            /\ PendingNumbers(pending, key) = <<>>
            /\ StreamPasses(key) =>
                LET stored == StoredRows(file, key, "sample_number")
                IN  /\ Len(stored) = Len(KeySamples(key))
                    /\ \A i \in 1..Len(KeySamples(key)) :
                            Occurrences(stored, KeySamples(key)[i].n) = 1

\* two samples of the root stream a and one of stream a of device /0 are
\* buffered unsplit in batches of two, and finish writes them
C7_Witness ==
    /\ phase = "finished"
    /\ batch_size = 2
    /\ filter.some
    /\ \A i \in 1..Len(hist) : ~hist[i].split
    /\ StoredRows(file, StreamKey(<<>>, 1), "sample_number") = <<0, 1>>
    /\ StoredRows(file, StreamKey(<<0>>, 1), "sample_number") = <<0>>

(***************************************************************************)
(* C8.  As claimed: for every stream key the stored sample numbers, run    *)
(* group by run group, are exactly the sequence of the samples passed to   *)
(* write_sample for the key.                                               *)
(***************************************************************************)
C8_ExactSequence ==
    phase = "finished" =>
        \A key \in Keys : StoredRows(file, key, "sample_number") = AllNumbers(key)

(***************************************************************************)
(* C8, amended.  For every stream key the stored sample numbers followed   *)
(* by the buffered ones, run group by run group, are a subsequence of the  *)
(* sequence passed to write_sample (the numbers of a key are passed in     *)
(* increasing order, so: they are among them and increase strictly), and   *)
(* they are exactly that sequence when every sample of the key carries a   *)
(* column passing the filter.                                              *)
(***************************************************************************)
StrictlyIncreasing(seq) == \A i \in 1..(Len(seq) - 1) : seq[i] < seq[i + 1]

C8_EmissionOrder ==
    \A key \in Keys :
        LET held == StoredRows(file, key, "sample_number") \o PendingNumbers(pending, key)
        IN  /\ StrictlyIncreasing(AllNumbers(key))
            /\ StrictlyIncreasing(held)
            /\ Elems(held) \subseteq Elems(AllNumbers(key))
            /\ StreamPasses(key) => held = AllNumbers(key)

\* a sample of another stream comes between samples 0 and 1 of the root
\* stream a, and sample 1 starts a new run: read run by run, a holds 0, 1
C8_Witness ==
    /\ phase = "finished"
    /\ filter.some
    /\ split_level = "PerStream"
    /\ Len(hist) = 3
    /\ hist[2].key # StreamKey(<<>>, 1)
    /\ hist[3].key = StreamKey(<<>>, 1) /\ hist[3].split
    /\ Rows(file, "/a/run_000000", "sample_number") = <<0>>
    /\ Rows(file, "/a/run_000001", "sample_number") = <<1>>
    /\ StoredRows(file, StreamKey(<<>>, 1), "sample_number") = <<0, 1>>

(***************************************************************************)
(* C9.  As claimed: every stream that received samples has, once the file  *)
(* is finished, a group with time and sample_number datasets that hold all *)
(* its samples, whatever the filter rejects.                               *)
(***************************************************************************)
C9_AlwaysPresent ==
    phase = "finished" =>
        \A key \in Keys : KeySamples(key) # <<>> =>
            /\ \E g \in GroupsOf(key) :
                    g \in DOMAIN file /\ {"time", "sample_number"} \subseteq DOMAIN file[g].ds
            /\ Len(StoredRows(file, key, "sample_number")) = Len(KeySamples(key))
            /\ Len(StoredRows(file, key, "time")) = Len(KeySamples(key))

(***************************************************************************)
(* C9, amended.  The filter suppresses time and sample_number only         *)
(* together with a whole batch: every group of the file holds time and     *)
(* sample_number datasets of the same length next to at least one column   *)
(* dataset, a flushed batch with a column that passes the filter adds all  *)
(* its samples to both, and a flushed batch none of whose columns passes   *)
(* adds nothing to the file, so that a stream all of whose columns are     *)
(* rejected has no group at all.                                           *)
(***************************************************************************)
TimeAndNumber == {"time", "sample_number"}

C9_GroupShape ==
    \A g \in DOMAIN file :
        /\ TimeAndNumber \subseteq DOMAIN file[g].ds
        /\ Len(file[g].ds["time"]) = Len(file[g].ds["sample_number"])
        /\ DOMAIN file[g].ds # TimeAndNumber

C9_NoGroupWithoutColumn ==
    \A key \in Keys :
        (\A i \in 1..Len(hist) : hist[i].key = key => ~CallPasses(hist[i]))
            => GroupsOf(key) \cap DOMAIN file = {}

\* the group the batch pending for key is written to by this step
StoredBatch(key) ==
    LET g == GroupOf(key, RunBefore(key))
    IN  IF BatchPasses(key)
        THEN /\ Rows(file', g, "sample_number")
                    = Rows(file, g, "sample_number") \o pending[key].sample_numbers
             /\ Rows(file', g, "time") = Rows(file, g, "time") \o pending[key].timestamps
        ELSE \A h \in GroupsOf(key) :
                /\ h \in DOMAIN file' <=> h \in DOMAIN file
                /\ h \in DOMAIN file => file'[h] = file[h]

\* finish, or a split triggered by another key, flushes the batch of key
C9_FlushStep ==
    \A key \in Keys :
        (/\ PendingNumbers(pending, key) # <<>>
         /\ \/ ~IsWrite /\ phase' = "finished"
            \/ IsWrite /\ Call.key # key /\ Call.split /\ Covers(Call.key, key))
            => StoredBatch(key)

C9_TimeWithColumns ==
    [](C9_GroupShape /\ C9_NoGroupWithoutColumn) /\ [][C9_FlushStep]_vars

\* the filter keeps column y only; stream b has column x only and gets no
\* group, the root stream a has its sample in time and sample_number
C9_Witness ==
    /\ phase = "finished"
    /\ filter.some
    /\ KeySamples(StreamKey(<<>>, 2)) # <<>>
    /\ GroupsOf(StreamKey(<<>>, 2)) \cap DOMAIN file = {}
    /\ Len(StoredRows(file, StreamKey(<<>>, 1), "time")) = 1
    /\ StoredRows(file, StreamKey(<<>>, 1), "sample_number") = <<0>>

(***************************************************************************)
(* C10.  A group of stream s at route r has a dataset for column c if and  *)
(* only if a flushed sample of the stream carried c and no filter is       *)
(* configured or filter.matches(r, s, c): every column dataset of every    *)
(* run group has a name that passes, and a column that passes has the      *)
(* value of every flushed sample that carried it in a dataset of its name. *)
(***************************************************************************)
ColumnNames == UNION {{l[i].name : i \in 1..Len(l)} : l \in UNION {Layouts(key) : key \in Keys}}

C10_OnlyPassing ==
    \A key \in Keys : \A g \in GroupsOf(key) \cap DOMAIN file :
        \A name \in DOMAIN file[g].ds \ TimeAndNumber :
            \E c \in ColumnNames :
                /\ Str(c) = name
                /\ ~filter.some \/ matches(filter.v, key.route, StreamNameOf(key), c)

C10_EveryPassing ==
    \A i \in 1..Len(hist) :
        LET key == hist[i].key
        IN  \A j \in 1..Len(hist[i].columns) :
                LET c == hist[i].columns[j].name
                IN  IF ~filter.some \/ matches(filter.v, key.route, StreamNameOf(key), c)
                    THEN hist[i].n \in Elems(PendingNumbers(pending, key))
                            \/ hist[i].n \in Elems(StoredRows(file, key, Str(c)))
                    ELSE \A g \in GroupsOf(key) \cap DOMAIN file :
                            Str(c) \notin DOMAIN file[g].ds

C10_FilteredColumns == C10_OnlyPassing /\ C10_EveryPassing

\* the filter keeps column y only: the group of the root stream a, whose
\* sample carried x and y, has a dataset y and none for x
C10_Witness ==
    /\ phase = "finished"
    /\ filter.some
    /\ "/a" \in DOMAIN file
    /\ DOMAIN file["/a"].ds = {"time", "sample_number", "y"}
    /\ file["/a"].ds["y"] = <<0>>

(***************************************************************************)
(* C11.  As claimed: every group that holds data has had its metadata      *)
(* attributes written exactly once (the keys of one route have distinct    *)
(* stream names, so no two keys share a group).                            *)
(***************************************************************************)
C11_AttributesOnce ==
    \A g \in DOMAIN file :
        Rows(file, g, "sample_number") # <<>> => Len(file[g].attrs) = 1

(***************************************************************************)
(* C12.  As claimed: the stats finish returns have start_time the minimum  *)
(* and end_time the maximum of the timestamps of all samples written to    *)
(* the file.                                                               *)
(***************************************************************************)
WrittenTimes == UNION {Elems(Rows(file, g, "time")) : g \in DOMAIN file}

C12_MinMax ==
    (phase = "finished" /\ WrittenTimes # {}) =>
        /\ stats.start_time.some /\ stats.end_time.some
        /\ \A t \in WrittenTimes : stats.start_time.v <= t /\ t <= stats.end_time.v
        /\ stats.start_time.v \in WrittenTimes
        /\ stats.end_time.v \in WrittenTimes

(***************************************************************************)
(* C13.  As claimed: the same calls on an appender with the same options   *)
(* leave the same file, its groups and datasets created in the same order: *)
(* in every state each call that can come next, and finish, has one        *)
(* outcome for the file, whatever the order in which the hash maps of the  *)
(* appender are iterated.                                                  *)
(***************************************************************************)
FileOf(self) == [file |-> self.file, created |-> self.created]

C13_SameFile ==
    phase = "open" =>
        /\ Cardinality({FileOf(u) : u \in finish(Self)}) = 1
        /\ \A key \in Keys, boundary \in Boundaries :
                \A columns \in Layouts(key) :
                    Cardinality({FileOf(u) :
                        u \in write_sample(Self, MakeSample(key, boundary, columns), key)}) = 1

\* the contents do not depend on the iteration order: only the order of
\* creation does
C13_SameContents ==
    phase = "open" =>
        /\ Cardinality({u.file : u \in finish(Self)}) = 1
        /\ \A key \in Keys, boundary \in Boundaries :
                \A columns \in Layouts(key) :
                    Cardinality({u.file :
                        u \in write_sample(Self, MakeSample(key, boundary, columns), key)}) = 1

(***************************************************************************)
(* C14.  As claimed: when an appender is dropped without finish, the       *)
(* samples its pending batches held are in the file.                       *)
(***************************************************************************)
C14_DropFlushes ==
    phase = "dropped" =>
        \A key \in Keys :
            Elems(PendingNumbers(pending, key))
                \subseteq Elems(StoredRows(file, key, "sample_number"))

(***************************************************************************)
(* C15.  The appender returns on the first I/O error: when a file operation *)
(* fails inside write_sample or finish, the call returns the error and      *)
(* attempts no further file operation (no operation is ever late, and the   *)
(* appender a failed split leaves is the one handle_discontinuity left at   *)
(* the failure); when the failure occurs while flushing for a split, the    *)
(* run counters are not incremented and the triggering sample is not added  *)
(* to the pending batch.                                                   *)
(***************************************************************************)
\* the appender after the step
SelfAfter ==
    [file |-> file', pending |-> pending', filter |-> filter',
     batch_size |-> batch_size', split_policy |-> split_policy',
     split_level |-> split_level', stream_runs |-> stream_runs',
     device_runs |-> device_runs', global_run |-> global_run', stats |-> stats',
     io |-> io', created |-> created']

\* the flush for the split of the call meets the failing operation
SplitFlushFails ==
    /\ IsWrite /\ Call.split
    /\ \E u \in handle_discontinuity(Self, Call.key) : u.io.err

C15_NothingLate == ~io.late /\ (io.err <=> phase = "failed")

C15_FailedSplit ==
    SplitFlushFails =>
        /\ phase' = "failed"
        /\ \E u \in handle_discontinuity(Self, Call.key) :
                SelfAfter = [u EXCEPT !.created = created']
        /\ CountersUnchanged
        /\ Call.n \notin Elems(PendingNumbers(pending', Call.key))

Digit(id, place) == ToString((id \div place) % 10)

SixDigits(id) ==
    IF id >= 1000000 THEN ToString(id)
    ELSE Digit(id, 100000) \o Digit(id, 10000) \o Digit(id, 1000)
            \o Digit(id, 100) \o Digit(id, 10) \o Digit(id, 1)

RouteSegments(route) == [i \in 1..Len(route) |-> ToString(route[i])]

RECURSIVE Joined(_)
Joined(segments) ==
    IF segments = <<>> THEN "" ELSE "/" \o Head(segments) \o Joined(Tail(segments))

PathSegments(key) ==
    LET route == RouteSegments(key.route)
        stream == Str(StreamNameOf(key))
        run == "run_" \o SixDigits(RunBefore(key))
    IN  CASE split_level = "None" -> route \o <<stream>>
          [] split_level = "PerStream" -> route \o <<stream, run>>
          [] split_level = "PerDevice" -> route \o <<run, stream>>
          [] split_level = "Global" -> <<run>> \o route \o <<stream>>

C16_GroupPath ==
    arg.some =>
        /\ arg.v.path = Joined(PathSegments(arg.v.key))
        /\ \A i \in 1..Len(PathSegments(arg.v.key)) : PathSegments(arg.v.key)[i] # ""

\* the root stream a in run 10 of its device: no route segment
C16_Witness ==
    /\ arg.some
    /\ split_level = "PerDevice"
    /\ arg.v.key.route = <<>>
    /\ arg.v.path = "/run_000010/a"

(***************************************************************************)
(* C17.  The file only grows: a step removes no group and no dataset and   *)
(* leaves the rows of every dataset as the first rows of what the dataset  *)
(* holds afterwards; and an append_dataset call, in any state, leaves in   *)
(* the dataset the rows it held followed by the rows of data, and every    *)
(* other dataset and group as it was.                                      *)
(***************************************************************************)
IsPrefix(a, b) == Len(a) <= Len(b) /\ SubSeq(b, 1, Len(a)) = a

C17_OnlyGrows ==
    \A g \in DOMAIN file :
        /\ g \in DOMAIN file'
        /\ \A d \in DOMAIN file[g].ds :
                /\ d \in DOMAIN file'[g].ds
                /\ IsPrefix(file[g].ds[d], file'[g].ds[d])

AppendedData == {<<>>, <<7>>, <<7, 8>>}

C17_AppendAtEnd ==
    \A g \in DOMAIN file, name \in {"time", "x", "z"}, data \in AppendedData :
        LET after == append_dataset(Self, g, name, data).file
        IN  /\ DOMAIN after = DOMAIN file
            /\ \A h \in DOMAIN file \ {g} : after[h] = file[h]
            /\ after[g].attrs = file[g].attrs
            /\ DOMAIN after[g].ds = DOMAIN file[g].ds \cup {name}
            /\ \A d \in DOMAIN file[g].ds \ {name} : after[g].ds[d] = file[g].ds[d]
            /\ after[g].ds[name] = Rows(file, g, name) \o data
            /\ Len(after[g].ds[name]) = Len(Rows(file, g, name)) + Len(data)

C17_AppendOnly == []C17_AppendAtEnd /\ [][C17_OnlyGrows]_vars

\* two batches of one sample each have been appended to the datasets of
\* the root stream a
C17_Witness ==
    /\ batch_size = 1
    /\ split_level = "None"
    /\ "/a" \in DOMAIN file
    /\ file["/a"].ds["sample_number"] = <<0, 1>>
    /\ file["/a"].ds["time"] = <<1, 2>>

(***************************************************************************)
(* The firmware uploader: firmware_upgrade of tio-tool.  up holds the      *)
(* position of the function (pc), the locals of its loop, the build        *)
(* (overflow checks on or off), and what the device has been sent: the     *)
(* number of dev.firmware.upload requests (sent), the last of them         *)
(* (last_request), the number of replies accepted (acked), the last packet *)
(* received (last_packet) and whether dev.firmware.upgrade was issued.     *)
(***************************************************************************)
\* u16: the type of next_send_chunk, next_ack_chunk and of the id of an RPC
U16 == 65536

MAX_CHUNKS_IN_FLIGHT == 2

\* `usize::from(next_send_chunk) * 288`
ChunkSize == 288

\* the lengths of the firmware image: empty; less than a chunk; one chunk; one
\* byte more; the 721 bytes of the example; and the longest image whose
\* chunks a u16 numbers
LargestImage == U16 * ChunkSize

FirmwareLengths == {0, 1, ChunkSize, ChunkSize + 1, 721, LargestImage}

\* x + 1 on a u16: a panic where the sum overflows and the build checks
\* overflow (debug), the wrapped sum where it does not (release)
add_one(u, x) ==
    IF x + 1 < U16 THEN Some(x + 1)
    ELSE IF u.overflow_checks THEN None ELSE Some((x + 1) % U16)

\* `next_send_chunk - next_ack_chunk` on u16
in_flight(u) ==
    IF u.next_send_chunk >= u.next_ack_chunk
    THEN Some(u.next_send_chunk - u.next_ack_chunk)
    ELSE IF u.overflow_checks THEN None
    ELSE Some((u.next_send_chunk - u.next_ack_chunk + U16) % U16)

panic(u, cause) == [u EXCEPT !.pc = "panic", !.cause = cause]

\* a variant of the window test that does not ask whether bytes remain
window_open_any_data(u) ==
    in_flight(u).some /\ in_flight(u).v < MAX_CHUNKS_IN_FLIGHT

\* a variant of the window test that lets one chunk more be in flight
window_open_wide(u) ==
    u.more_to_send /\ in_flight(u).some /\ in_flight(u).v <= MAX_CHUNKS_IN_FLIGHT

\* `more_to_send && ((next_send_chunk - next_ack_chunk) < MAX_CHUNKS_IN_FLIGHT)`
window_open(u) ==
    u.more_to_send /\ in_flight(u).some /\ in_flight(u).v < MAX_CHUNKS_IN_FLIGHT

\* the subtraction of the window test overflows
window_panics(u) == u.more_to_send /\ ~in_flight(u).some

\* `while more_to_send || (next_ack_chunk != next_send_chunk)`
loop_continues(u) == u.more_to_send \/ u.next_ack_chunk # u.next_send_chunk

\* the request for the chunk next_send_chunk
upload_request(u) ==
    LET offset == u.next_send_chunk * ChunkSize
        chunk_end == IF offset + ChunkSize > u.firmware_len THEN u.firmware_len
                     ELSE offset + ChunkSize
    IN  [id |-> u.next_send_chunk, offset |-> offset, chunk_end |-> chunk_end]

\* the body of `if more_to_send && ...`: the chunk is cut and sent
\* (sent_ok: device.send returned Ok), the counter advances
send_chunk(u, sent_ok) ==
    LET req == upload_request(u)
        next == add_one(u, u.next_send_chunk)
    IN  IF req.offset > req.chunk_end THEN panic(u, "slice")
        ELSE IF ~sent_ok THEN panic(u, "send")
        ELSE LET v == [u EXCEPT !.sent = @ + 1, !.last_request = Some(req)]
             IN  IF ~next.some THEN panic(v, "overflow")
                 ELSE [v EXCEPT !.next_send_chunk = next.v,
                                !.more_to_send = req.chunk_end < u.firmware_len,
                                !.pc = "recv"]

\* a variant that accepts a reply whatever its id
on_reply_any_id(u, id) ==
    LET next == add_one(u, u.next_ack_chunk)
    IN  IF ~next.some THEN panic(u, "overflow")
        ELSE [u EXCEPT !.next_ack_chunk = next.v, !.acked = @ + 1, !.pc = "loop"]

\* `Payload::RpcReply(rep) => { ... }`
on_reply(u, id) ==
    LET next == add_one(u, u.next_ack_chunk)
    IN  IF id # u.next_ack_chunk THEN panic(u, "reply id")
        ELSE IF ~next.some THEN panic(u, "overflow")
        ELSE [u EXCEPT !.next_ack_chunk = next.v, !.acked = @ + 1, !.pc = "loop"]

\* what try_recv or recv returns: a packet, WouldBlock (try_recv alone), or
\* another error
ReplyIds(u) == {u.next_ack_chunk, (u.next_ack_chunk + 1) % U16}

Received(u) ==
    {[kind |-> "RpcReply", id |-> id] : id \in ReplyIds(u)}
        \cup {[kind |-> k, id |-> 0] : k \in {"RpcError", "StreamData", "Disconnected"}}
        \cup (IF window_open(u) THEN {[kind |-> "WouldBlock", id |-> 0]} ELSE {})

\* `let pkt = ...; match pkt.payload { ... }`
receive(u, pkt) ==
    LET v == [u EXCEPT !.last_packet = Some([kind |-> pkt.kind, id |-> pkt.id,
                                              expected |-> u.next_ack_chunk])]
    IN  CASE pkt.kind = "WouldBlock" -> [u EXCEPT !.pc = "loop"]
          [] pkt.kind = "Disconnected" -> panic(u, "recv")
          [] pkt.kind = "RpcReply" -> on_reply(v, pkt.id)
          [] pkt.kind = "RpcError" -> panic(v, "rpc error")
          [] OTHER -> [v EXCEPT !.pc = "loop"]

AppenderFresh ==
    LET self == with_options(None, 1, "Continuous", "None")
    IN  /\ file = self.file
        /\ pending = self.pending
        /\ filter = self.filter
        /\ batch_size = self.batch_size
        /\ split_policy = self.split_policy
        /\ split_level = self.split_level
        /\ stream_runs = self.stream_runs
        /\ device_runs = self.device_runs
        /\ global_run = self.global_run
        /\ stats = self.stats
        /\ io = self.io
        /\ created = self.created
        /\ phase = "open"
        /\ hist = <<>>

AppenderIdle == AppenderFresh /\ arg = None

AppenderUnchanged ==
    UNCHANGED <<file, pending, filter, batch_size, split_policy, split_level,
                stream_runs, device_runs, global_run, stats, io, created, phase,
                hist, arg, tool>>

\* the image is read and the device opened
InitUpload ==
    /\ AppenderIdle
    /\ tool = NotRunning
    /\ \E len \in FirmwareLengths, checks \in BOOLEAN :
        up = [pc |-> "stop", cause |-> "", firmware_len |-> len,
              overflow_checks |-> checks,
              next_send_chunk |-> 0, next_ack_chunk |-> 0, more_to_send |-> TRUE,
              stopped |-> FALSE, sent |-> 0, acked |-> 0, last_request |-> None,
              last_packet |-> None, upgrade_issued |-> FALSE]

\* a variant in which a failure of dev.stop ends the upload
stop_device_or_panic(u, ok) ==
    IF ok THEN [u EXCEPT !.pc = "loop", !.stopped = TRUE] ELSE panic(u, "stop")

\* `if let Err(_) = device.action("dev.stop") { println!(...) }`: stopped
\* tells whether the device answered Ok
stop_device(u, ok) == [u EXCEPT !.pc = "loop", !.stopped = ok]

\* `device.action("dev.stop")`, whose failure is printed and ignored
Stop ==
    /\ up.pc = "stop"
    /\ \E ok \in BOOLEAN : up' = stop_device(up, ok)
    /\ AppenderUnchanged

\* the loop test fails: the loop is left
LeaveLoop ==
    /\ up.pc = "loop"
    /\ ~loop_continues(up)
    /\ up' = [up EXCEPT !.pc = "upgrade"]
    /\ AppenderUnchanged

\* an iteration starts with a chunk to send, or its window test panics
SendChunk ==
    /\ up.pc = "loop"
    /\ loop_continues(up)
    /\ window_open(up) \/ window_panics(up)
    /\ \E sent_ok \in BOOLEAN :
        up' = IF window_panics(up) THEN panic(up, "overflow")
              ELSE send_chunk(up, sent_ok)
    /\ AppenderUnchanged

\* the receive of an iteration, after the send or without one, or the panic
\* of the window test before it
Receive ==
    /\ \/ up.pc = "recv"
       \/ up.pc = "loop" /\ loop_continues(up)
                         /\ ~window_open(up) /\ ~window_panics(up)
    /\ \E pkt \in Received(up) :
        up' = IF window_panics(up) THEN panic(up, "overflow") ELSE receive(up, pkt)
    /\ AppenderUnchanged

\* `device.action("dev.firmware.upgrade")`
Upgrade ==
    /\ up.pc = "upgrade"
    /\ \E ok \in BOOLEAN :
        up' = IF ok THEN [up EXCEPT !.pc = "done", !.upgrade_issued = TRUE]
              ELSE [panic(up, "upgrade") EXCEPT !.upgrade_issued = TRUE]
    /\ AppenderUnchanged

NextUpload ==
    \/ Stop
    \/ SendChunk
    \/ Receive
    \/ LeaveLoop
    \/ Upgrade

SpecUpload == InitUpload /\ [][NextUpload]_vars

(***************************************************************************)
(* C18.  During the firmware upload at most MAX_CHUNKS_IN_FLIGHT = 2       *)
(* chunks are sent and not yet acknowledged: at every point of the loop,   *)
(* for every image and every sequence of received packets,                 *)
(* next_send_chunk - next_ack_chunk, as the program computes it on u16, is *)
(* from 0 to 2, and so is the number of requests sent less the number of   *)
(* replies accepted; a chunk is sent only when fewer than two are in       *)
(* flight, so chunk k+2 is never sent before the reply for chunk k.        *)
(***************************************************************************)
C18_InFlight ==
    up.pc # "idle" =>
        /\ in_flight(up).some
        /\ in_flight(up).v \in 0..MAX_CHUNKS_IN_FLIGHT
        /\ up.sent - up.acked \in 0..MAX_CHUNKS_IN_FLIGHT
        /\ in_flight(up).v <= up.sent - up.acked

\* the step sends chunk number up.sent: the replies for all the chunks up to
\* up.sent - 2 were received
C18_SendStep ==
    (up.pc # "idle" /\ up'.sent # up.sent) =>
        /\ up'.sent = up.sent + 1
        /\ up.acked >= up.sent - 1

C18_Window == []C18_InFlight /\ [][C18_SendStep]_vars

\* the longest image in a build without overflow checks: all its 65536
\* chunks are sent, next_send_chunk has wrapped to 0, two chunks are in flight
C18_Witness ==
    /\ up.pc = "recv"
    /\ up.firmware_len = LargestImage
    /\ up.sent = U16 /\ up.acked = U16 - MAX_CHUNKS_IN_FLIGHT
    /\ up.next_send_chunk = 0 /\ up.next_ack_chunk = U16 - MAX_CHUNKS_IN_FLIGHT
    /\ in_flight(up) = Some(MAX_CHUNKS_IN_FLIGHT)

(***************************************************************************)
(* C19.  For a firmware image of L bytes a completed upload has sent       *)
(* exactly ceil(L/288) dev.firmware.upload requests, whose ids are the     *)
(* chunk indices 0, 1, 2, ... in order, without gap or repetition.         *)
(***************************************************************************)
CeilDiv(a, b) == (a + b - 1) \div b

\* the k-th request carries id k and the bytes from 288 k on: each request
\* is the one after the requests sent before it
C19_IdsInOrder ==
    (up.pc # "idle" /\ up.last_request.some) =>
        /\ up.last_request.v.id = (up.sent - 1) % U16
        /\ up.last_request.v.offset = (up.sent - 1) * ChunkSize

C19_ChunkCount ==
    up.pc = "done" =>
        /\ up.sent = CeilDiv(up.firmware_len, ChunkSize)
        /\ C19_IdsInOrder

(***************************************************************************)
(* C20.  If during the firmware upload an RpcReply whose id differs from   *)
(* next_ack_chunk, or an RpcError, is received, the upload aborts: no      *)
(* further chunk is sent and dev.firmware.upgrade is never issued.         *)
(***************************************************************************)
\* the last packet received was a reply with another id than next_ack_chunk
\* had, or an RpcError
FatalPacket(u) ==
    /\ u.last_packet.some
    /\ \/ u.last_packet.v.kind = "RpcReply" /\ u.last_packet.v.id # u.last_packet.v.expected
       \/ u.last_packet.v.kind = "RpcError"

C20_Aborted ==
    (up.pc # "idle" /\ FatalPacket(up)) =>
        /\ up.pc = "panic"
        /\ ~up.upgrade_issued

C20_NothingAfter ==
    (up.pc # "idle" /\ FatalPacket(up)) =>
        /\ up'.sent = up.sent
        /\ up'.last_request = up.last_request
        /\ ~up'.upgrade_issued

C20_Abort == []C20_Aborted /\ [][C20_NothingAfter]_vars

\* the image of 721 bytes: chunks 0 and 1 are sent and the first reply
\* carries id 1
C20_Witness ==
    /\ up.pc = "panic" /\ up.cause = "reply id"
    /\ up.firmware_len = 721
    /\ up.sent = 2 /\ up.acked = 0
    /\ up.last_packet = Some([kind |-> "RpcReply", id |-> 1, expected |-> 0])
    /\ ~up.upgrade_issued

(***************************************************************************)
(* C21.  dev.firmware.upgrade is issued at most once and only after every  *)
(* chunk of the image has been sent and acknowledged in order: when it is  *)
(* issued, next_ack_chunk = next_send_chunk = the number of chunks of the  *)
(* image, ceil(L/288), and no bytes remain to send.                        *)
(***************************************************************************)
\* every request sent was acknowledged and nothing remains to send
C21_AllAcknowledged ==
    (up.pc # "idle" /\ up.upgrade_issued) =>
        /\ up.next_ack_chunk = up.next_send_chunk
        /\ up.acked = up.sent
        /\ ~up.more_to_send
        /\ up.sent >= CeilDiv(up.firmware_len, ChunkSize)

\* once issued, nothing more happens: it is issued once
C21_IssuedOnce ==
    [][(up.pc # "idle" /\ up.upgrade_issued) => up' = up]_vars

C21_UpgradeLast ==
    (up.pc # "idle" /\ up.upgrade_issued) =>
        /\ up.next_ack_chunk = up.next_send_chunk
        /\ up.next_send_chunk = CeilDiv(up.firmware_len, ChunkSize)
        /\ ~up.more_to_send

(***************************************************************************)
(* C22.  firmware_upgrade attempts dev.stop before the first chunk is      *)
(* sent, and a failure of dev.stop is tolerated: the upload goes on to     *)
(* send chunk 0 whether dev.stop succeeded or failed.                      *)
(***************************************************************************)
\* nothing is sent before dev.stop was attempted, no panic is on account of
\* dev.stop, and after the attempt the loop is at the send of chunk 0
C22_StopFirst ==
    up.pc # "idle" =>
        /\ up.pc = "stop" => up.sent = 0 /\ ~up.last_request.some
        /\ up.pc = "panic" => up.cause # "stop"
        /\ (up.pc = "loop" /\ up.sent = 0) =>
                /\ loop_continues(up) /\ window_open(up)
                /\ upload_request(up).id = 0 /\ upload_request(up).offset = 0

\* the attempt leads to the loop whatever its result, and the first step of
\* the loop is the send of chunk 0 (or its failure)
C22_StopStep ==
    /\ (up.pc = "stop") => up'.pc = "loop" /\ up'.sent = 0
    /\ (up.pc = "loop" /\ up.sent = 0) =>
            \/ up'.sent = 1 /\ up'.last_request.v.id = 0
            \/ up'.pc = "panic" /\ up'.cause = "send"

C22_StopTolerated == []C22_StopFirst /\ [][C22_StopStep]_vars

\* dev.stop failed and chunk 0 was sent
C22_Witness ==
    /\ up.pc = "recv"
    /\ ~up.stopped
    /\ up.sent = 1 /\ up.last_request.some /\ up.last_request.v.id = 0

(***************************************************************************)
(* The column filter alone: a filter is made of a pattern (ColumnFilter::   *)
(* new) and asked about one column (ColumnFilter::matches).  arg holds the  *)
(* pattern and, once asked, the column and the answer.  The patterns are    *)
(* all the texts of up to MaxPatternLen characters over an alphabet with    *)
(* the wildcards, the separator, letters, a digit and a blank, and the      *)
(* patterns of the examples of filter.rs.                                   *)
(***************************************************************************)
FilterAlphabet == {"*", "?", "/", "a", "x", "0", " "}

Texts(alphabet, n) == UNION {[1..k -> alphabet] : k \in 0..n}

ExamplePatterns ==
    {<<"/", "0", "/", "*", "/", "x">>,
     <<"/", "0", "/", "a", "/", "x">>,
     <<"/", "0", "/", "a", "/", "*", "*">>,
     <<"*", "*", "/", "a", "/", "*", "*">>,
     <<"*", "*", "/", "a", "x">>,
     <<"v", "e", "c", "t", "o", "r">>}

InputPatterns == Texts(FilterAlphabet, MaxPatternLen) \cup ExamplePatterns

FilterRoutes == {<<>>, <<0>>, <<1>>, <<0, 1>>, <<1, 0>>}

FilterStreams == {<<"a">>, <<"x">>, <<"a", "x">>, <<"v", "e", "c", "t", "o", "r">>}

FilterColumns == {<<"a">>, <<"x">>, <<"y">>, <<"a", "x">>}

InitFilter ==
    /\ AppenderFresh
    /\ up = NotUploading
    /\ tool = NotRunning
    /\ \E p \in InputPatterns : arg = Some([pattern |-> p, asked |-> FALSE])

\* ColumnFilter::new(pattern) and, when it is Ok, matches(route, stream, col)
AskFilter(route, stream_name, col_name) ==
    /\ arg.some /\ ~arg.v.asked
    /\ LET made == ColumnFilter_new(arg.v.pattern)
       IN  arg' = Some([pattern |-> arg.v.pattern, asked |-> TRUE,
                        route |-> route, stream_name |-> stream_name,
                        col_name |-> col_name,
                        normalized |-> normalize_pattern(arg.v.pattern),
                        ok |-> made.ok,
                        matched |-> IF made.ok
                                    THEN matches(made.v, route, stream_name, col_name)
                                    ELSE FALSE])
    /\ UNCHANGED <<file, pending, filter, batch_size, split_policy, split_level,
                   stream_runs, device_runs, global_run, stats, io, created, phase,
                   hist, up, tool>>

NextFilter ==
    \E route \in FilterRoutes, stream_name \in FilterStreams, col_name \in FilterColumns :
        AskFilter(route, stream_name, col_name)

SpecFilter == InitFilter /\ [][NextFilter]_vars

\* the filter was made and asked
Asked == arg.some /\ arg.v.asked /\ arg.v.ok

\* segments, each after a "/"
RECURSIVE SlashJoined(_)
SlashJoined(segments) ==
    IF segments = <<>> THEN <<>>
    ELSE <<"/">> \o Head(segments) \o SlashJoined(Tail(segments))

\* the indices of a route, in decimal
RouteIndices(route) == [i \in 1..Len(route) |-> decimal(route[i])]

\* /{route}/{stream}/{col}, and /{stream}/{col} for the root route
SyntheticPath(route, stream_name, col_name) ==
    SlashJoined(RouteIndices(route) \o <<stream_name, col_name>>)

\* the path of the column that was asked about
AskedPath == SyntheticPath(arg.v.route, arg.v.stream_name, arg.v.col_name)

\* the pattern without the blanks around it
Trimmed == trim(arg.v.pattern)

(***************************************************************************)
(* C23.  For all (route, stream, col), matches(route, stream, col) equals  *)
(* the glob match of the normalized pattern against the path               *)
(* /{route}/{stream}/{col}, the route indices joined by "/", and           *)
(* /{stream}/{col} for the root route.                                     *)
(***************************************************************************)
C23_MatchesPath ==
    Asked =>
        /\ get_path_string(arg.v.route, arg.v.stream_name, arg.v.col_name) = AskedPath
        /\ arg.v.matched = Pattern_matches(Pattern_new(arg.v.normalized), AskedPath)

\* the pattern /a/x and the column x of stream a of the root device
C23_Witness ==
    /\ Asked
    /\ arg.v.pattern = <<"/", "a", "/", "x">>
    /\ arg.v.route = <<>> /\ arg.v.stream_name = <<"a">> /\ arg.v.col_name = <<"x">>
    /\ arg.v.matched

(***************************************************************************)
(* C24.  Normalization follows the five rules for every pattern: empty     *)
(* stays empty and matches nothing; a pattern with a wildcard that starts  *)
(* with "**/" and goes on with one alphabetic name without "/" becomes     *)
(* "**/*/{name}"; any other pattern with a wildcard is used as it is; a    *)
(* pattern without wildcard and without "/" becomes "**/{name}/**"; a      *)
(* pattern with "/" and without wildcard is used as it is and matches      *)
(* exactly the one path equal to it.  (The wildcard of the rules is read   *)
(* as "*", and the rules are applied to the pattern without the blanks     *)
(* around it.)                                                             *)
(***************************************************************************)
HasWildcard(text) == contains(text, "*")

\* the name of a pattern "**/{name}": what follows the prefix
NameAfterPrefix(text) == SubSeq(text, 4, Len(text))

RuleNormalized(text) ==
    IF text = <<>> THEN <<>>
    ELSE IF HasWildcard(text) THEN
        IF /\ starts_with(text, <<"*", "*", "/">>)
           /\ ~contains(NameAfterPrefix(text), "/")
           /\ is_alphabetic_name(NameAfterPrefix(text))
        THEN <<"*", "*", "/", "*", "/">> \o NameAfterPrefix(text)
        ELSE text
    ELSE IF ~contains(text, "/") THEN <<"*", "*", "/">> \o text \o <<"/", "*", "*">>
    ELSE text

C24_Normalized ==
    (arg.some /\ arg.v.asked) => arg.v.normalized = RuleNormalized(Trimmed)

C24_EmptyMatchesNothing ==
    (Asked /\ Trimmed = <<>>) => ~arg.v.matched

C24_ExactMatch ==
    (Asked /\ contains(Trimmed, "/") /\ ~HasWildcard(Trimmed)) =>
        (arg.v.matched <=> AskedPath = Trimmed)

C24_FiveRules == C24_Normalized /\ C24_EmptyMatchesNothing /\ C24_ExactMatch

(***************************************************************************)
(* C25.  For a bare-name pattern (no "*", no "/"), matches(route, stream,  *)
(* col) is true if and only if stream equals that name, for every route    *)
(* depth, the root route included, and for every column name.              *)
(***************************************************************************)
BareName == Trimmed # <<>> /\ ~contains(Trimmed, "*") /\ ~contains(Trimmed, "/")

C25_StreamAnywhere ==
    (Asked /\ BareName) => (arg.v.matched <=> arg.v.stream_name = Trimmed)

(***************************************************************************)
(* C26.  For a pattern "**/name" with an alphabetic name, matches(route,   *)
(* stream, col) is true if and only if col equals that name, for every     *)
(* route depth, the root route included, and for every stream name.  (A    *)
(* name is made of letters and digits, with a letter.)                     *)
(***************************************************************************)
NameChars == Letters \cup {"0", "1", "2", "3", "4", "5", "6", "7", "8", "9"}

IsName(text) ==
    /\ text # <<>>
    /\ \A i \in 1..Len(text) : text[i] \in NameChars
    /\ is_alphabetic_name(text)

ColumnAnywhere ==
    /\ starts_with(Trimmed, <<"*", "*", "/">>)
    /\ IsName(NameAfterPrefix(Trimmed))

C26_ColumnAnywhere ==
    (Asked /\ ColumnAnywhere) =>
        (arg.v.matched <=> arg.v.col_name = NameAfterPrefix(Trimmed))

\* "**/ax" and the column ax of stream a of the device at /0/1
C26_Witness ==
    /\ Asked
    /\ arg.v.pattern = <<"*", "*", "/", "a", "x">>
    /\ arg.v.route = <<0, 1>> /\ arg.v.stream_name = <<"a">>
    /\ arg.v.col_name = <<"a", "x">>
    /\ arg.v.matched

(***************************************************************************)
(* C27.  In a pattern "*" matches exactly one path segment and never       *)
(* crosses a "/": the pattern /0/*/x matches (route, stream, col) if and   *)
(* only if route = /0 and col = x, and matches no column of a device at a  *)
(* deeper route such as /0/1.                                              *)
(***************************************************************************)
C27_OneSegment ==
    (Asked /\ arg.v.pattern = <<"/", "0", "/", "*", "/", "x">>) =>
        (arg.v.matched <=> (arg.v.route = <<0>> /\ arg.v.col_name = <<"x">>))

(***************************************************************************)
(* tio-tool: main and its commands.  tool holds one run: its command line  *)
(* (line), what the run meets outside the program (env), the position of   *)
(* the run (pc), the locals of the log readers and the way the process     *)
(* ends.  The commands on a device (rpc, firmware-upgrade) are one step    *)
(* each; the commands on log files (log-dump, log-csv, log-hdf) read their *)
(* files packet by packet.  A file is a number of complete packets and     *)
(* what follows them: nothing ("eof"), a partial frame ("partial") or a    *)
(* frame with an inconsistent header ("invalid"); Packet::deserialize      *)
(* returns Err for the last two.  A packet is named by its file and its    *)
(* place in the file.                                                      *)
(***************************************************************************)
MaxFiles == 2
MaxPackets == 2

\* the deepest route of the protocol
MAX_ROUTE_LEN == 8

\* the text of a sensor route, cut at "/" into its segments; empty segments
\* are left out
RECURSIVE split_route(_, _)
split_route(text, segment) ==
    IF text = <<>> THEN (IF segment = <<>> THEN <<>> ELSE <<segment>>)
    ELSE IF Head(text) = "/"
    THEN (IF segment = <<>> THEN <<>> ELSE <<segment>>) \o split_route(Tail(text), <<>>)
    ELSE split_route(Tail(text), Append(segment, Head(text)))

\* the number a text of decimal digits stands for, if it is one
RECURSIVE parse_index(_, _)
parse_index(text, n) ==
    IF text = <<>> THEN Some(n)
    ELSE IF \E d \in 0..9 : ToString(d) = Head(text)
    THEN parse_index(Tail(text), 10 * n + (CHOOSE d \in 0..9 : ToString(d) = Head(text)))
    ELSE None

\* DeviceRoute::from_str: Ok(route), or Err for a segment that is no index
\* of 0..=254 and for a route deeper than MAX_ROUTE_LEN
DeviceRoute_from_str(text) ==
    LET segments == split_route(text, <<>>)
        indices == [i \in 1..Len(segments) |-> parse_index(segments[i], 0)]
    IN  IF /\ Len(segments) <= MAX_ROUTE_LEN
           /\ \A i \in 1..Len(segments) : indices[i].some /\ indices[i].v <= 254
        THEN [ok |-> TRUE, v |-> [i \in 1..Len(segments) |-> indices[i].v]]
        ELSE [ok |-> FALSE]

DeviceRoute_root == <<>>

\* TioOpts::parse_route
parse_route(route_path) ==
    LET parsed == DeviceRoute_from_str(route_path)
    IN  IF parsed.ok THEN parsed.v ELSE DeviceRoute_root

\* the values of -s/--sensor: /, /0, /0/1, /x, /255 and a route of nine
\* indices
Sensors ==
    { <<"/">>, <<"/", "0">>, <<"/", "0", "/", "1">>, <<"/", "x">>,
      <<"/", "2", "5", "5">>,
      <<"/", "0", "/", "0", "/", "0", "/", "0", "/", "0", "/", "0", "/", "0",
        "/", "0", "/", "0">> }

LogFiles ==
    [packets : 0..MaxPackets, tail : {"eof", "partial", "invalid"}, readable : {TRUE}]
        \cup {[packets |-> 0, tail |-> "eof", readable |-> FALSE]}

FileLists == UNION {[1..k -> LogFiles] : k \in 0..MaxFiles}

\* the exit statuses of main
ExitCode == [SUCCESS |-> 0, FAILURE |-> 1]

\* the exit status of a process whose main thread panicked: 101 when the
\* panic unwinds, SIGABRT (seen as 134) in a build with panic = "abort"
PanicStatuses == {101, 134}

\* the exit status of clap for a command line it rejects
UsageStatus == {2}

DeviceCommands == {"rpc", "firmware-upgrade"}
LogCommands == {"log-dump", "log-csv", "log-hdf"}

\* the command lines: for the commands on a device, a sensor, the argument
\* of the RPC (none, one of the request type, one that is not) and the
\* firmware image; for the commands on log files, the files, the sensor
\* (log-csv may go without) and -d/-m of log-dump (parsed)
DeviceLines ==
    [command : DeviceCommands, usage_ok : BOOLEAN, sensor : {Some(t) : t \in Sensors},
     rpc_arg : {"none", "valid", "invalid"}, parsed : {FALSE}, files : {<<>>}]

LogLines ==
    [command : LogCommands, usage_ok : BOOLEAN,
     sensor : {Some(t) : t \in Sensors} \cup {None},
     rpc_arg : {"none"}, parsed : BOOLEAN, files : FileLists]

Lines ==
    {l \in DeviceLines :
        /\ l.command = "firmware-upgrade" => l.rpc_arg = "none"}
    \cup
    {l \in LogLines :
        /\ l.command # "log-dump" => ~l.parsed
        /\ l.command = "log-csv" \/ l.sensor # None
        /\ l.command = "log-hdf" => l.sensor = Some(<<"/">>)}

\* what a run meets: the device (it answers, it answers an RPC with an
\* error, or the port to it fails), whether the firmware image can be read,
\* whether the packets hold a sample of the stream log-csv asks for, whether
\* the build has the hdf5 feature and whether write_sample fails
Environments(line) ==
    IF line.command \in DeviceCommands
    THEN [device : {"ok", "rpc error", "transport loss"},
          image_readable : IF line.command = "rpc" THEN {TRUE} ELSE BOOLEAN,
          stream_found : {FALSE}, hdf5 : {TRUE}, write_error : {FALSE}]
    ELSE [device : {"ok"}, image_readable : {TRUE},
          stream_found : IF line.command = "log-csv" THEN BOOLEAN ELSE {FALSE},
          hdf5 : IF line.command = "log-hdf" THEN BOOLEAN ELSE {TRUE},
          write_error : IF line.command = "log-hdf" THEN BOOLEAN ELSE {FALSE}]

\* the function returned
returned(t, result, cause) ==
    [t EXCEPT !.pc = "returned", !.result = result, !.cause = cause]

\* a panic of the main thread: the process ends with one of PanicStatuses
panicked(t, cause, status) ==
    [t EXCEPT !.pc = "exited", !.result = "panic", !.cause = cause, !.status = status]

\* the route of the command: TioOpts::parse_route for the commands on a
\* device and the same fallback in log_dump; unwrap in log_csv, which takes
\* the root without -s
target_route(line) ==
    IF ~line.sensor.some THEN Some(DeviceRoute_root)
    ELSE IF line.command = "log-csv"
    THEN (LET parsed == DeviceRoute_from_str(line.sensor.v)
          IN  IF parsed.ok THEN Some(parsed.v) ELSE None)
    ELSE Some(parse_route(line.sensor.v))

\* rpc: the port, the argument, the request
rpc(t, status) ==
    IF t.env.device = "transport loss" THEN panicked(t, "transport loss", status)
    ELSE IF t.line.rpc_arg = "invalid" THEN panicked(t, "invalid argument", status)
    ELSE LET u == [t EXCEPT !.target = target_route(t.line),
                            !.operated = {target_route(t.line).v}]
         IN  IF t.env.device = "rpc error" THEN returned(u, "Err", "rpc error")
             ELSE returned(u, "Ok", "")

\* firmware_upgrade: the image, the port, dev.stop, the upload and
\* dev.firmware.upgrade
firmware_upgrade(t, status) ==
    IF ~t.env.image_readable THEN panicked(t, "unreadable file", status)
    ELSE IF t.env.device = "transport loss" THEN panicked(t, "transport loss", status)
    ELSE LET u == [t EXCEPT !.target = target_route(t.line),
                            !.operated = {target_route(t.line).v}]
         IN  IF t.env.device = "rpc error" THEN panicked(u, "upload abort", status)
             ELSE returned(u, "Ok", "")

\* the start of a log reader, up to its loop over the files
log_start(t, status) ==
    IF t.line.command = "log-hdf" /\ ~t.env.hdf5 THEN returned(t, "Err", "no hdf5")
    ELSE IF t.line.files = <<>> THEN returned(t, "Err", "no files")
    ELSE IF ~target_route(t.line).some THEN panicked(t, "invalid route", status)
    ELSE [t EXCEPT !.pc = "file", !.target = target_route(t.line), !.file_index = 1]

\* the end of the loop over the files
log_end(t) ==
    IF t.line.command = "log-csv" /\ ~t.header_written
    THEN returned(t, "Err", "no data")
    ELSE returned(t, "Ok", "")

\* std::fs::read, File::open: log_csv unwraps, the others return Err
open_file(t, status) ==
    IF t.line.files[t.file_index].readable
    THEN [t EXCEPT !.pc = "read", !.position = 0]
    ELSE IF t.line.command = "log-csv" THEN panicked(t, "unreadable file", status)
    ELSE returned(t, "Err", "unreadable file")

next_file(t) == [t EXCEPT !.pc = "file", !.file_index = @ + 1]

\* one complete packet is read and processed
read_packet(t) ==
    LET u == [t EXCEPT !.position = @ + 1,
                       !.processed = Append(@, <<t.file_index, t.position + 1>>),
                       !.operated = IF t.line.command = "log-hdf" THEN @
                                    ELSE @ \cup {t.target.v}]
    IN  IF t.line.command = "log-hdf" /\ t.env.write_error
        THEN returned(u, "Err", "write error")
        ELSE IF t.line.command = "log-csv" /\ t.env.stream_found
        THEN [u EXCEPT !.header_written = TRUE]
        ELSE u

\* the end of the complete packets: the end of the file, or a frame that
\* Packet::deserialize refuses.  The raw log-dump returns Err, the parsed
\* log-dump and log-hdf leave the file, log-csv unwraps.
read_tail(t, status) ==
    IF t.line.files[t.file_index].tail = "eof" THEN next_file(t)
    ELSE IF t.line.command = "log-csv" THEN panicked(t, "deserialize", status)
    ELSE IF t.line.command = "log-dump" /\ ~t.line.parsed
    THEN returned(t, "Err", "deserialize")
    ELSE next_file(t)

AppenderAndUploader ==
    UNCHANGED <<file, pending, filter, batch_size, split_policy, split_level,
                stream_runs, device_runs, global_run, stats, io, created, phase,
                hist, arg, up>>

InitTool ==
    /\ AppenderIdle
    /\ up = NotUploading
    /\ \E line \in Lines : \E env \in Environments(line) :
        tool = [pc |-> "main", line |-> line, env |-> env, target |-> None,
                file_index |-> 0, position |-> 0, processed |-> <<>>,
                header_written |-> FALSE, operated |-> {}, result |-> "",
                cause |-> "", status |-> -1]

\* Cli::parse: clap ends the process for a command line it rejects
ParseCli ==
    /\ tool.pc = "main"
    /\ \E status \in UsageStatus :
        tool' = IF tool.line.usage_ok THEN [tool EXCEPT !.pc = "run"]
                ELSE [tool EXCEPT !.pc = "exited", !.result = "usage",
                                  !.cause = "usage", !.status = status]
    /\ AppenderAndUploader

Rpc ==
    /\ tool.pc = "run" /\ tool.line.command = "rpc"
    /\ \E status \in PanicStatuses : tool' = rpc(tool, status)
    /\ AppenderAndUploader

FirmwareUpgrade ==
    /\ tool.pc = "run" /\ tool.line.command = "firmware-upgrade"
    /\ \E status \in PanicStatuses : tool' = firmware_upgrade(tool, status)
    /\ AppenderAndUploader

LogStart ==
    /\ tool.pc = "run" /\ tool.line.command \in LogCommands
    /\ \E status \in PanicStatuses : tool' = log_start(tool, status)
    /\ AppenderAndUploader

OpenFile ==
    /\ tool.pc = "file" /\ tool.file_index <= Len(tool.line.files)
    /\ \E status \in PanicStatuses : tool' = open_file(tool, status)
    /\ AppenderAndUploader

LogEnd ==
    /\ tool.pc = "file" /\ tool.file_index > Len(tool.line.files)
    /\ tool' = log_end(tool)
    /\ AppenderAndUploader

ReadPacket ==
    /\ tool.pc = "read"
    /\ tool.position < tool.line.files[tool.file_index].packets
    /\ tool' = read_packet(tool)
    /\ AppenderAndUploader

ReadTail ==
    /\ tool.pc = "read"
    /\ tool.position = tool.line.files[tool.file_index].packets
    /\ \E status \in PanicStatuses : tool' = read_tail(tool, status)
    /\ AppenderAndUploader

\* main: ExitCode::SUCCESS for Ok, "FAILED" and ExitCode::FAILURE for Err
Exit ==
    /\ tool.pc = "returned"
    /\ tool' = [tool EXCEPT !.pc = "exited",
                            !.status = IF tool.result = "Ok" THEN ExitCode.SUCCESS
                                       ELSE ExitCode.FAILURE]
    /\ AppenderAndUploader

NextTool ==
    \/ ParseCli
    \/ Rpc
    \/ FirmwareUpgrade
    \/ LogStart
    \/ OpenFile
    \/ LogEnd
    \/ ReadPacket
    \/ ReadTail
    \/ Exit

SpecTool == InitTool /\ [][NextTool]_vars

\* the run has ended
Exited == tool.pc = "exited"

\* the complete packets of the files from the i-th on, in the order of the
\* files and of each file
RECURSIVE CompletePackets(_, _)
CompletePackets(files, i) ==
    IF i > Len(files) THEN <<>>
    ELSE [k \in 1..files[i].packets |-> <<i, k>>] \o CompletePackets(files, i + 1)

\* the sensor of the command line is no route
InvalidSensor == tool.line.sensor.some /\ ~DeviceRoute_from_str(tool.line.sensor.v).ok

\* a run of a log reader that meets nothing but partial frames: readable
\* files, each of complete packets and then its end or a partial frame, a
\* sensor that is a route, a build with hdf5 and no write error
PartialFrameRun ==
    /\ tool.line.command \in LogCommands
    /\ tool.line.usage_ok
    /\ ~InvalidSensor
    /\ tool.env.hdf5 /\ ~tool.env.write_error
    /\ tool.line.files # <<>>
    /\ \A i \in 1..Len(tool.line.files) :
        tool.line.files[i].readable /\ tool.line.files[i].tail \in {"eof", "partial"}
    /\ \E i \in 1..Len(tool.line.files) : tool.line.files[i].tail = "partial"

(***************************************************************************)
(* C28.  Every command that reads log files (log-dump raw and parsed,      *)
(* log-csv, log-hdf), given a file of complete packets followed by a       *)
(* partial frame, processes every complete packet in order, stops reading  *)
(* that file at the partial frame and completes normally: it reports no    *)
(* failure on account of the partial frame.                                *)
(***************************************************************************)
C28_PartialFrame ==
    (Exited /\ PartialFrameRun) =>
        /\ tool.processed = CompletePackets(tool.line.files, 1)
        /\ tool.result # "panic"
        /\ tool.cause \in {"", "no data"}

(***************************************************************************)
(* C29.  Every command ends with exit code 0 when it succeeds and with     *)
(* exit code 1 when it fails in any way (RPC error, transport loss,        *)
(* unreadable or malformed input file, firmware upload abort, invalid      *)
(* argument value); no failure ends the process with another status.       *)
(***************************************************************************)
C29_ExitCodes ==
    Exited =>
        tool.status = (IF tool.result = "Ok" THEN ExitCode.SUCCESS ELSE ExitCode.FAILURE)

(***************************************************************************)
(* C30.  A sensor route given with -s/--sensor that is syntactically       *)
(* invalid or too deep is surfaced as a Routing error: the command fails   *)
(* and performs no operation (RPC, dump, log, firmware upload) on any      *)
(* device, and none on the root device in particular.                      *)
(***************************************************************************)
C30_RoutingError ==
    (Exited /\ tool.line.usage_ok /\ InvalidSensor) =>
        /\ tool.status # ExitCode.SUCCESS
        /\ tool.operated = {}

(***************************************************************************)
(* C31.  Firmware chunk i carries exactly the image bytes                  *)
(* [288 i, min(288 (i + 1), L)): every chunk but the last has 288 bytes,   *)
(* the last has between 1 and 288 bytes, and the payloads in id order are  *)
(* the firmware image, no byte missing, duplicated or reordered.           *)
(***************************************************************************)
\* the bytes of a request
ChunkBytes(req) == req.chunk_end - req.offset

\* the request sent by this step is the chunk after the ones sent before:
\* it starts where the last ended and ends 288 bytes on or at the end of
\* the image
C31_NextChunk ==
    (up.pc # "idle" /\ up'.sent # up.sent) =>
        /\ up'.last_request.some
        /\ up'.last_request.v.id = up.sent % U16
        /\ up'.last_request.v.offset = ChunkSize * up.sent
        /\ up'.last_request.v.offset =
              (IF up.last_request.some THEN up.last_request.v.chunk_end ELSE 0)
        /\ up'.last_request.v.chunk_end =
              min(ChunkSize * (up.sent + 1), up.firmware_len)

\* every chunk has 288 bytes or ends the image, and none is empty
C31_ChunkSize ==
    (up.pc # "idle" /\ up.last_request.some) =>
        /\ ChunkBytes(up.last_request.v) \in 1..ChunkSize
        /\ \/ ChunkBytes(up.last_request.v) = ChunkSize
           \/ up.last_request.v.chunk_end = up.firmware_len

\* when the upgrade is issued the chunks sent end at the end of the image
C31_WholeImage ==
    (up.pc # "idle" /\ up.upgrade_issued) =>
        /\ up.last_request.some
        /\ up.last_request.v.chunk_end = up.firmware_len

C31_Chunks == [](C31_ChunkSize /\ C31_WholeImage) /\ [][C31_NextChunk]_vars

\* the same for the images that are not empty
C31_ChunksOfImage ==
    [](up.pc # "idle" /\ up.firmware_len > 0 => C31_ChunkSize /\ C31_WholeImage)
        /\ [][C31_NextChunk]_vars

(***************************************************************************)
(* The uploader with a device that answers: every dev.firmware.upload      *)
(* request is answered by an RpcReply with the id of the request, in the   *)
(* order of the requests; try_recv may find nothing (WouldBlock) and       *)
(* packets that are no RPC answers may arrive at any time; no send and no  *)
(* receive fails.  The uploader goes on as long as it can take a step, and *)
(* the answer of a request it waits for arrives in the end (weak           *)
(* fairness).                                                              *)
(***************************************************************************)
\* the uploader is at its try_recv or recv
Receiving ==
    \/ up.pc = "recv"
    \/ up.pc = "loop" /\ loop_continues(up) /\ ~window_open(up) /\ ~window_panics(up)

SendChunkOk ==
    /\ up.pc = "loop"
    /\ loop_continues(up)
    /\ window_open(up) \/ window_panics(up)
    /\ up' = IF window_panics(up) THEN panic(up, "overflow") ELSE send_chunk(up, TRUE)
    /\ AppenderUnchanged

\* the answer of the oldest request not yet answered
ReceiveReply ==
    /\ Receiving
    /\ up.acked < up.sent
    /\ up' = IF window_panics(up) THEN panic(up, "overflow")
             ELSE receive(up, [kind |-> "RpcReply", id |-> up.acked % U16])
    /\ AppenderUnchanged

\* nothing yet, or a packet that is no RPC answer
ReceiveOther ==
    /\ Receiving
    /\ \E pkt \in {[kind |-> "StreamData", id |-> 0]}
                    \cup (IF window_open(up) THEN {[kind |-> "WouldBlock", id |-> 0]}
                          ELSE {}) :
        up' = IF window_panics(up) THEN panic(up, "overflow") ELSE receive(up, pkt)
    /\ AppenderUnchanged

NextAnswered ==
    \/ Stop
    \/ SendChunkOk
    \/ ReceiveReply
    \/ ReceiveOther
    \/ LeaveLoop
    \/ Upgrade

SpecAnswered ==
    /\ InitUpload
    /\ [][NextAnswered]_vars
    /\ WF_vars(NextAnswered)
    /\ WF_vars(ReceiveReply)

(***************************************************************************)
(* C32.  If the device answers every dev.firmware.upload request with an   *)
(* RpcReply carrying the id of the request, in request order, then for     *)
(* every image size the loop of the upload ends and dev.firmware.upgrade   *)
(* is issued in the end, whatever the interleaving of WouldBlock polls,    *)
(* replies and packets that are no RPC answers, which are passed over      *)
(* without a change of next_ack_chunk.                                     *)
(***************************************************************************)
C32_UpgradeIssued == <>(up.upgrade_issued)

\* a packet that is no reply leaves the counters of the loop as they are
C32_OthersIgnored ==
    [][(up.pc # "idle" /\ up'.pc # "panic" /\ up'.acked = up.acked) =>
            up'.next_ack_chunk = up.next_ack_chunk]_vars

\* the same for the images of fewer than 65536 chunks
C32_UpgradeIssuedSmall ==
    (up.firmware_len < LargestImage) => <>(up.upgrade_issued)

(***************************************************************************)
(* C33.  The uploader blocks waiting for a reply only when no bytes remain *)
(* to send or 2 chunks are in flight; whenever a chunk can still be sent   *)
(* it only polls without blocking and after WouldBlock goes on to send the *)
(* next chunk: it never waits for a reply while the window has room and    *)
(* data remains.                                                           *)
(***************************************************************************)
\* the receive is the blocking recv: it cannot return WouldBlock
Blocks == [kind |-> "WouldBlock", id |-> 0] \notin Received(up)

\* the requests sent and not yet answered
Unanswered == up.sent - up.acked

C33_BlocksWhenFull ==
    (up.pc # "idle" /\ Receiving) =>
        (Blocks <=> (~up.more_to_send \/ Unanswered = MAX_CHUNKS_IN_FLIGHT))

\* a poll that brings no reply is followed by the send of the next chunk
C33_PollStep ==
    (up.pc # "idle" /\ Receiving /\ ~Blocks /\ up'.pc = "loop" /\ up'.acked = up.acked) =>
        /\ up'.more_to_send /\ up'.sent - up'.acked < MAX_CHUNKS_IN_FLIGHT
        /\ up'.next_send_chunk = up.next_send_chunk

C33_NeverWaits == []C33_BlocksWhenFull /\ [][C33_PollStep]_vars

\* the uploader blocks with two chunks in flight and more to send
C33_Witness ==
    /\ up.pc # "idle" /\ Receiving /\ Blocks
    /\ up.more_to_send /\ Unanswered = MAX_CHUNKS_IN_FLIGHT
    /\ up.last_packet.some /\ up.last_packet.v.kind = "StreamData"

\* the uploader polled, found nothing and is about to send chunk 1
C33_Polled ==
    /\ up.pc = "loop" /\ up.sent = 1 /\ up.acked = 0 /\ up.more_to_send
    /\ ~up.last_packet.some

(***************************************************************************)
(* The argument of the rpc command.  rpc_arg is the text of the command    *)
(* line, req_type the declared request type; the request payload is the    *)
(* text parsed as a number of the type's parser and written with           *)
(* to_le_bytes, or the bytes of the text for "string".  Numbers are kept   *)
(* as their bytes, least significant first (a u64 does not fit the         *)
(* integers of the model checker): a magnitude is a sequence of bytes      *)
(* without leading zero bytes, <<>> being 0.                               *)
(***************************************************************************)
\* 10 * magnitude + carry
RECURSIVE times_ten_plus(_, _)
times_ten_plus(magnitude, carry) ==
    IF magnitude = <<>> THEN (IF carry = 0 THEN <<>> ELSE <<carry>>)
    ELSE <<(10 * Head(magnitude) + carry) % 256>>
            \o times_ten_plus(Tail(magnitude), (10 * Head(magnitude) + carry) \div 256)

\* the magnitude of a text of decimal digits; None for another character
RECURSIVE parse_digits(_, _)
parse_digits(text, magnitude) ==
    IF text = <<>> THEN Some(magnitude)
    ELSE IF \E d \in 0..9 : ToString(d) = Head(text)
    THEN parse_digits(Tail(text),
                      times_ten_plus(magnitude, CHOOSE d \in 0..9 : ToString(d) = Head(text)))
    ELSE None

\* the sign and the magnitude of a text: "+" and "-" may lead, "-" for a
\* signed type alone; None for an empty text, a lone sign, another character
parse_number(text, signed) ==
    LET negative == signed /\ text # <<>> /\ Head(text) = "-"
        digits == IF text # <<>> /\ (Head(text) = "+" \/ negative) THEN Tail(text) ELSE text
        magnitude == IF digits = <<>> THEN None ELSE parse_digits(digits, <<>>)
    IN  IF magnitude.some
        THEN Some([negative |-> negative /\ magnitude.v # <<>>, magnitude |-> magnitude.v])
        ELSE None

\* the number is one of the integer type: 0..2^(8 width) - 1, or
\* -2^(8 width - 1)..2^(8 width - 1) - 1
fits(number, signed, width) ==
    IF ~signed THEN Len(number.magnitude) <= width
    ELSE \/ Len(number.magnitude) < width
         \/ /\ Len(number.magnitude) = width
            /\ \/ number.magnitude[width] < 128
               \/ /\ number.negative
                  /\ number.magnitude = [i \in 1..width |-> IF i = width THEN 128 ELSE 0]

\* bytes + carry, on the width of bytes
RECURSIVE plus_carry(_, _)
plus_carry(bytes, carry) ==
    IF bytes = <<>> THEN <<>>
    ELSE <<(Head(bytes) + carry) % 256>>
            \o plus_carry(Tail(bytes), (Head(bytes) + carry) \div 256)

\* to_le_bytes of an integer: two's complement for a negative one
int_to_le_bytes(number, width) ==
    LET padded == [i \in 1..width |->
                      IF i <= Len(number.magnitude) THEN number.magnitude[i] ELSE 0]
    IN  IF number.negative
        THEN plus_carry([i \in 1..width |-> 255 - padded[i]], 1)
        ELSE padded

\* s.parse::<T>().unwrap().to_le_bytes().to_vec(): None for the panic
parse_int_bytes(text, signed, width) ==
    LET number == parse_number(text, signed)
    IN  IF number.some /\ fits(number.v, signed, width)
        THEN Some(int_to_le_bytes(number.v, width))
        ELSE None

\* the exponent of a magnitude that is a power of two
exponent_of(magnitude) ==
    8 * (Len(magnitude) - 1)
        + (CHOOSE e \in 0..7 : magnitude[Len(magnitude)] = 2 ^ e)

\* the float of a text of the model, 0 or a power of two with its sign, and
\* its to_le_bytes: sign, exponent with its bias, mantissa 0
parse_float_bytes(text, exponent_bits, width) ==
    LET number == parse_number(text, TRUE)
        sign == IF text # <<>> /\ Head(text) = "-" THEN 128 ELSE 0
        biased == IF number.v.magnitude = <<>> THEN 0
                  ELSE exponent_of(number.v.magnitude) + 2 ^ (exponent_bits - 1) - 1
        low == 2 ^ (exponent_bits - 7)
    IN  IF ~number.some THEN None
        ELSE Some([i \in 1..width |->
                      IF i = width THEN sign + biased \div low
                      ELSE IF i = width - 1 THEN (biased % low) * (256 \div low)
                      ELSE 0])

\* the character of a text as a byte
as_byte(c) ==
    IF c = "-" THEN 45
    ELSE IF c = "+" THEN 43
    ELSE IF \E d \in 0..9 : ToString(d) = c THEN 48 + (CHOOSE d \in 0..9 : ToString(d) = c)
    ELSE IF c = "a" THEN 97 ELSE IF c = "b" THEN 98 ELSE 99

\* the argument of device.raw_rpc: the match over req_type
rpc_request_payload(req_type, s) ==
    CASE req_type = "u8" -> parse_int_bytes(s, FALSE, 1)
      [] req_type = "u16" -> parse_int_bytes(s, FALSE, 2)
      [] req_type = "u32" -> parse_int_bytes(s, FALSE, 4)
      [] req_type = "u64" -> parse_int_bytes(s, FALSE, 4)
      [] req_type = "i8" -> parse_int_bytes(s, TRUE, 1)
      [] req_type = "i16" -> parse_int_bytes(s, TRUE, 2)
      [] req_type = "i32" -> parse_int_bytes(s, TRUE, 4)
      [] req_type = "i64" -> parse_int_bytes(s, TRUE, 4)
      [] req_type = "f32" -> parse_float_bytes(s, 8, 4)
      [] req_type = "f64" -> parse_float_bytes(s, 11, 8)
      [] req_type = "string" -> Some([i \in 1..Len(s) |-> as_byte(s[i])])
      [] OTHER -> None

\* the texts of the arguments: decimal digits, with "-" for the negative
Decimal(digits) == [i \in 1..Len(digits) |-> ToString(digits[i])]

\* 0, 1, and around the ends of the ranges of the integer types
Naturals8 == {<<0>>, <<1>>, <<1, 2, 7>>, <<1, 2, 8>>, <<2, 5, 5>>, <<2, 5, 6>>}
Naturals16 == {<<3, 2, 7, 6, 7>>, <<3, 2, 7, 6, 8>>, <<6, 5, 5, 3, 5>>, <<6, 5, 5, 3, 6>>}
Naturals32 ==
    {<<2, 1, 4, 7, 4, 8, 3, 6, 4, 7>>, <<2, 1, 4, 7, 4, 8, 3, 6, 4, 8>>,
     <<4, 2, 9, 4, 9, 6, 7, 2, 9, 5>>, <<4, 2, 9, 4, 9, 6, 7, 2, 9, 6>>}
Naturals64 ==
    {<<9, 2, 2, 3, 3, 7, 2, 0, 3, 6, 8, 5, 4, 7, 7, 5, 8, 0, 7>>,
     <<9, 2, 2, 3, 3, 7, 2, 0, 3, 6, 8, 5, 4, 7, 7, 5, 8, 0, 8>>,
     <<1, 8, 4, 4, 6, 7, 4, 4, 0, 7, 3, 7, 0, 9, 5, 5, 1, 6, 1, 5>>,
     <<1, 8, 4, 4, 6, 7, 4, 4, 0, 7, 3, 7, 0, 9, 5, 5, 1, 6, 1, 6>>}
Negatives ==
    {<<1>>, <<1, 2, 8>>, <<1, 2, 9>>, <<3, 2, 7, 6, 8>>, <<3, 2, 7, 6, 9>>,
     <<2, 1, 4, 7, 4, 8, 3, 6, 4, 8>>, <<2, 1, 4, 7, 4, 8, 3, 6, 4, 9>>,
     <<9, 2, 2, 3, 3, 7, 2, 0, 3, 6, 8, 5, 4, 7, 7, 5, 8, 0, 8>>,
     <<9, 2, 2, 3, 3, 7, 2, 0, 3, 6, 8, 5, 4, 7, 7, 5, 8, 0, 9>>}

IntegerTexts ==
    {Decimal(d) : d \in Naturals8 \cup Naturals16 \cup Naturals32 \cup Naturals64}
        \cup {<<"-">> \o Decimal(d) : d \in Negatives}

\* the texts given to a float type: 0 and powers of two
FloatTexts ==
    {t \in IntegerTexts :
        LET m == parse_number(t, TRUE).v.magnitude
        IN  \/ m = <<>>
            \/ /\ \A i \in 1..(Len(m) - 1) : m[i] = 0
               /\ \E e \in 0..7 : m[Len(m)] = 2 ^ e}

OtherTexts == {<<"a", "b", "c">>, <<>>}

RequestTypes ==
    {"u8", "u16", "u32", "u64", "i8", "i16", "i32", "i64", "f32", "f64", "string", "bool"}

ArgTexts(req_type) ==
    (IF req_type \in {"f32", "f64"} THEN FloatTexts ELSE IntegerTexts) \cup OtherTexts

InitArg ==
    /\ AppenderFresh
    /\ up = NotUploading
    /\ tool = NotRunning
    /\ \E req_type \in RequestTypes : \E s \in ArgTexts(req_type) :
        arg = Some([req_type |-> req_type, rpc_arg |-> s, built |-> FALSE])

\* the request is built
BuildRequest ==
    /\ arg.some /\ ~arg.v.built
    /\ arg' = Some([req_type |-> arg.v.req_type, rpc_arg |-> arg.v.rpc_arg, built |-> TRUE,
                    payload |-> rpc_request_payload(arg.v.req_type, arg.v.rpc_arg)])
    /\ UNCHANGED <<file, pending, filter, batch_size, split_policy, split_level,
                   stream_runs, device_runs, global_run, stats, io, created, phase,
                   hist, up, tool>>

NextArg == BuildRequest

SpecArg == InitArg /\ [][NextArg]_vars

(***************************************************************************)
(* C34.  The rpc command encodes a numeric argument of the declared        *)
(* request type T of u8, u16, u32, u64, i8, i16, i32, i64, f32, f64 as the *)
(* little-endian fixed-width representation of T: the payload has 1, 2, 4  *)
(* or 8 bytes according to T, and every value of the range of T is         *)
(* accepted.                                                               *)
(***************************************************************************)
WidthOf(req_type) ==
    CASE req_type \in {"u8", "i8"} -> 1
      [] req_type \in {"u16", "i16"} -> 2
      [] req_type \in {"u32", "i32", "f32"} -> 4
      [] req_type \in {"u64", "i64", "f64"} -> 8

SignedTypes == {"i8", "i16", "i32", "i64"}
IntegerTypes == {"u8", "u16", "u32", "u64"} \cup SignedTypes
NumericTypes == IntegerTypes \cup {"f32", "f64"}

\* the number the text of the argument stands for
ArgNumber == parse_number(arg.v.rpc_arg, TRUE)

\* the number is of the range of the declared type
InRangeOf(req_type) ==
    /\ ArgNumber.some
    /\ \/ req_type \in {"f32", "f64"}
       \/ /\ req_type \in SignedTypes \/ ~ArgNumber.v.negative
          /\ fits(ArgNumber.v, req_type \in SignedTypes, WidthOf(req_type))

\* the bytes read back as a number: the magnitude without its leading zero
\* bytes, of the two's complement where the sign bit of a signed type is set
RECURSIVE Magnitude(_)
Magnitude(bytes) ==
    IF bytes # <<>> /\ bytes[Len(bytes)] = 0 THEN Magnitude(SubSeq(bytes, 1, Len(bytes) - 1))
    ELSE bytes

ReadBack(bytes, signed) ==
    IF signed /\ bytes[Len(bytes)] >= 128
    THEN [negative |-> TRUE,
          magnitude |-> Magnitude(plus_carry([i \in 1..Len(bytes) |-> 255 - bytes[i]], 1))]
    ELSE [negative |-> FALSE, magnitude |-> Magnitude(bytes)]

C34_Accepted ==
    (arg.some /\ arg.v.built /\ arg.v.req_type \in NumericTypes /\ InRangeOf(arg.v.req_type)) =>
        arg.v.payload.some

C34_Width ==
    (arg.some /\ arg.v.built /\ arg.v.req_type \in NumericTypes /\ arg.v.payload.some) =>
        Len(arg.v.payload.v) = WidthOf(arg.v.req_type)

C34_Value ==
    (arg.some /\ arg.v.built /\ arg.v.req_type \in IntegerTypes /\ arg.v.payload.some) =>
        ReadBack(arg.v.payload.v, arg.v.req_type \in SignedTypes) = ArgNumber.v

C34_LittleEndian == C34_Accepted /\ C34_Width /\ C34_Value

\* the same for the types other than u64 and i64
C34_NarrowTypes == arg.some /\ arg.v.req_type \notin {"u64", "i64"} => C34_LittleEndian

(***************************************************************************)
(* The log command without --raw.  The device tree turns each StreamData   *)
(* packet that arrives into its samples (sample.n = first_sample_n + i,    *)
(* sample.source the packet; the boundary, if one is pending, on the first *)
(* sample of the packet) and drain() returns the samples buffered since    *)
(* the last drain, in order.  tool holds the packets arrived (named by their *)
(* place), the samples buffered and the packets written to the file.       *)
(***************************************************************************)
MaxLogPackets == 2

\* the samples of a StreamData packet, in order
samples_of(pkt) ==
    [i \in 1..pkt.count |->
        [n |-> pkt.first_sample_n + (i - 1), source |-> pkt, route |-> pkt.route,
         boundary |-> i = 1 /\ pkt.boundary]]

\* the metadata packets written for a sample with a boundary: device,
\* stream, segment and one per column
metadata_updates(sample) ==
    << [kind |-> "device", of |-> sample.source.id, route |-> sample.route],
       [kind |-> "stream", of |-> sample.source.id, route |-> sample.route],
       [kind |-> "segment", of |-> sample.source.id, route |-> sample.route] >>
    \o [c \in 1..sample.source.columns |->
           [kind |-> "column", of |-> sample.source.id, route |-> sample.route]]

data_packet(sample) ==
    <<[kind |-> "data", of |-> sample.source.id, route |-> sample.route]>>

\* a variant that writes the data packet with every sample
log_sample_every(f, sample) ==
    f \o (IF sample.boundary THEN metadata_updates(sample) ELSE <<>>) \o data_packet(sample)

\* the body of `for (sample, sample_route) in batch`: what the file holds
\* after it
log_sample(f, sample) ==
    f \o (IF sample.boundary THEN metadata_updates(sample) ELSE <<>>)
      \o (IF sample.n = sample.source.first_sample_n THEN data_packet(sample) ELSE <<>>)

RECURSIVE log_batch(_, _)
log_batch(f, batch) ==
    IF batch = <<>> THEN f ELSE log_batch(log_sample(f, Head(batch)), Tail(batch))

LogPackets(id) ==
    [id : {id}, route : {<<>>, <<0>>}, first_sample_n : {0, 7}, count : 1..2,
     columns : 1..2, boundary : BOOLEAN]

InitLog ==
    /\ AppenderIdle
    /\ up = NotUploading
    /\ tool = [pc |-> "logging", packets |-> <<>>, buffered |-> <<>>, written |-> <<>>]

\* a StreamData packet arrives at the device tree
Arrive ==
    /\ tool.pc = "logging"
    /\ Len(tool.packets) < MaxLogPackets
    /\ \E pkt \in LogPackets(Len(tool.packets) + 1) :
        tool' = [tool EXCEPT !.packets = Append(@, pkt), !.buffered = @ \o samples_of(pkt)]
    /\ AppenderAndUploader

\* `Ok(batch) => ...`: the samples buffered are written
DrainBatch ==
    /\ tool.pc = "logging"
    /\ tool.buffered # <<>>
    /\ tool' = [tool EXCEPT !.buffered = <<>>, !.written = log_batch(@, tool.buffered)]
    /\ AppenderAndUploader

\* `Err(e) => break`
DrainFails ==
    /\ tool.pc = "logging"
    /\ tool' = [tool EXCEPT !.pc = "returned"]
    /\ AppenderAndUploader

NextLog ==
    \/ Arrive
    \/ DrainBatch
    \/ DrainFails

SpecLog == InitLog /\ [][NextLog]_vars

(***************************************************************************)
(* C35.  In the log mode that is not raw every StreamData packet delivered *)
(* through the device tree is written to the log file exactly once and in  *)
(* the order of arrival, and whenever a sample carries a boundary the      *)
(* device, stream, segment and all column metadata packets of that sample  *)
(* are written before the data packet that contains that sample.           *)
(***************************************************************************)
\* the log is running or has ended
Logging == tool.pc \in {"logging", "returned"} /\ "written" \in DOMAIN tool

\* the number of packets whose samples drain() has returned
Delivered == IF tool.buffered = <<>> THEN Len(tool.packets)
             ELSE tool.buffered[1].source.id - 1

\* what the file holds for one packet: its data packet, after the device,
\* stream, segment and column packets if its first sample has a boundary
EntriesOf(pkt) ==
    [i \in 1..(IF pkt.boundary THEN 4 + pkt.columns ELSE 1) |->
        [kind |-> IF ~pkt.boundary \/ i = 4 + pkt.columns THEN "data"
                  ELSE IF i = 1 THEN "device"
                  ELSE IF i = 2 THEN "stream"
                  ELSE IF i = 3 THEN "segment"
                  ELSE "column",
         of |-> pkt.id, route |-> pkt.route]]

RECURSIVE ExpectedLog(_, _)
ExpectedLog(packets, k) ==
    IF k = 0 THEN <<>> ELSE ExpectedLog(packets, k - 1) \o EntriesOf(packets[k])

C35_LogOrder == Logging => tool.written = ExpectedLog(tool.packets, Delivered)

\* two packets of two samples were delivered, the second with a boundary
\* and two columns
C35_Witness ==
    /\ Logging
    /\ Delivered = 2
    /\ tool.packets[2].count = 2 /\ tool.packets[2].boundary /\ tool.packets[2].columns = 2
    /\ tool.packets[1].count = 2 /\ ~tool.packets[1].boundary


(***************************************************************************)
(* C36.  The datasets of a group have the same number of rows.             *)
(***************************************************************************)
\* the numbers of rows of the datasets of group g
DatasetLengths(g) == {Len(file[g].ds[d]) : d \in DOMAIN file[g].ds}

\* C36: after every write_sample and after finish(), the time, the
\* sample_number and every column dataset of every group have the same
\* length, whatever columns the samples of the stream come with.
C36_SameLength ==
    \A g \in DOMAIN file : Cardinality(DatasetLengths(g)) <= 1

\* the same for the groups of streams whose samples all come with the same
\* columns
SameColumns(key) ==
    \A i, j \in 1..Len(hist) :
        hist[i].key = key /\ hist[j].key = key => hist[i].columns = hist[j].columns

C36_SameLengthOfFixedLayout ==
    (\A key \in Keys : SameColumns(key)) => C36_SameLength


(***************************************************************************)
(* Samples of a device that reboots.  Every sample carries the session_id  *)
(* of its device; the first sample of a stream has the Initial boundary    *)
(* and the first sample a stream receives in a new session the             *)
(* SessionChanged boundary.                                                *)
(***************************************************************************)
\* the session ids are 0..MaxSessionId
MaxSessionId == 1

\* the session of the device at route: that of its last sample
DeviceSession(route) ==
    LET calls == SelectSeq(hist, LAMBDA e : e.key.route = route)
    IN  IF calls = <<>> THEN 0 ELSE calls[Len(calls)].session_id

\* the sessions the next sample of the device can come from: the device may
\* have rebooted since its last sample
NextSessions(route) ==
    {id \in {DeviceSession(route), DeviceSession(route) + 1} : id <= MaxSessionId}

\* the boundary of the next sample of key when its device is in session_id
SessionBoundary(key, session_id) ==
    LET before == KeySamples(key)
    IN  IF before = <<>> THEN Some(Boundary("Initial", FALSE))
        ELSE IF before[Len(before)].session_id # session_id
        THEN Some(Boundary("SessionChanged", FALSE))
        ELSE None

WriteSampleOfSession(key, session_id, columns) ==
    /\ phase = "open"
    /\ Len(hist) < MaxSamples
    /\ session_id \in NextSessions(key.route)
    /\ LET sample == [MakeSample(key, SessionBoundary(key, session_id), columns)
                         EXCEPT !.session_id = session_id]
       IN  /\ \E self \in write_sample(Self, sample, key) : Adopt(self)
           /\ hist' = Append(hist, [key |-> key, n |-> sample.n,
                                    split |-> should_split(Self, sample),
                                    columns |-> columns,
                                    session_id |-> session_id])
    /\ arg' = None
    /\ phase' = IF io'.err THEN "failed" ELSE phase

NextSession ==
    \/ \E key \in Keys, session_id \in 0..MaxSessionId :
        \E columns \in Layouts(key) : WriteSampleOfSession(key, session_id, columns)
    \/ Finish

SpecSession == Init /\ [][NextSession]_vars

(***************************************************************************)
(* C37.  The session_id attribute of a run group.                          *)
(***************************************************************************)
\* the session of sample n of key
SessionOf(key, n) ==
    LET call == CHOOSE e \in Elems(KeySamples(key)) : e.n = n
    IN  call.session_id

\* the session_id attributes written on group g
SessionAttributes(g) == {file[g].attrs[i].session_id : i \in 1..Len(file[g].attrs)}

\* the groups of key that hold samples
DataGroups(key) ==
    {g \in GroupsOf(key) \cap DOMAIN file : Rows(file, g, "sample_number") # <<>>}

\* C37: the session_id attribute written on a run group is the session_id
\* of the device of the first sample stored in the group, also in the run
\* groups started after a sample with a SessionChanged boundary.
C37_SessionOfGroup ==
    split_level # "None" =>
        \A key \in Keys : \A g \in DataGroups(key) :
            SessionAttributes(g) \subseteq
                {SessionOf(key, Rows(file, g, "sample_number")[1])}

\* what the attribute is: the session of the first sample of the stream
C37_SessionOfStream ==
    \A key \in Keys : \A g \in DataGroups(key) :
        SessionAttributes(g) \subseteq {KeySamples(key)[1].session_id}

\* a run group started by a SessionChanged boundary has its attribute
C37_RunOfNewSession ==
    /\ split_level = "PerStream"
    /\ \E key \in Keys : \E g \in DataGroups(key) :
        /\ SessionOf(key, Rows(file, g, "sample_number")[1]) = 1
        /\ SessionOf(key, 0) = 0
        /\ file[g].attrs # <<>>


(***************************************************************************)
(* C38.  The run numbers of the run groups of the file.                    *)
(***************************************************************************)
\* the scopes of the run counters: a stream key, a device route, the file
Scopes ==
    CASE split_level = "PerStream" -> {{key} : key \in Keys}
      [] split_level = "PerDevice" ->
            {{key \in Keys : key.route = route} : route \in Routes}
      [] OTHER -> {Keys}

\* the run numbers of the run groups the file holds for the keys of a scope
RunsPresent(scope) ==
    {r \in Runs : \E key \in scope : GroupOf(key, r) \in DOMAIN file}

Contiguous(runs) == \A r \in runs : r = 0 \/ r - 1 \in runs

\* the file holds no group without rows
NoEmptyGroup ==
    \A g \in DOMAIN file : Rows(file, g, "sample_number") # <<>>

\* C38: after finish(), within every scope of the split level the run
\* numbers of the run groups of the file are 0, 1, ..., with none skipped,
\* and no run group is empty, whatever the samples and the filter.
C38_Contiguous ==
    (phase = "finished" /\ split_level # "None") =>
        /\ \A scope \in Scopes : Contiguous(RunsPresent(scope))
        /\ NoEmptyGroup

\* the first sample of every stream triggers no split, as the Initial
\* boundary of the first sample of a stream does not
FirstSamplesContinue ==
    \A key \in Keys : KeySamples(key) # <<>> => ~KeySamples(key)[1].split

\* the same for streams that start without a split
C38_ContiguousAfterInitial ==
    FirstSamplesContinue => C38_Contiguous

\* the same without a filter
C38_ContiguousUnfiltered ==
    (FirstSamplesContinue /\ ~filter.some) => C38_Contiguous

\* no run group is empty
C38_NoEmptyGroup == NoEmptyGroup


(***************************************************************************)
(* C39.  The stats count what the file holds.                              *)
(***************************************************************************)
\* the number of rows of the time datasets of the groups in paths
RECURSIVE TimeRows(_)
TimeRows(paths) ==
    IF paths = {} THEN 0
    ELSE LET g == CHOOSE p \in paths : TRUE
         IN  Len(Rows(file, g, "time")) + TimeRows(paths \ {g})

\* /{route}/{stream} of the streams that have rows in the file
StreamsStored == {StreamPath(key) : key \in {k \in Keys : DataGroups(k) # {}}}

\* the stats agree with the file
StatsCountFile ==
    /\ stats.total_samples = TimeRows(DOMAIN file)
    /\ stats.streams_written = StreamsStored

\* C39: the total_samples finish() returns is the number of rows of the
\* time datasets of all groups, and streams_written holds /{route}/{stream}
\* of exactly the streams that had a batch written to the file.
C39_Stats == phase = "finished" => StatsCountFile

\* a finished file with a filter: one stream is stored with two samples in
\* one group, and another stream that received a sample has none of its
\* columns kept
C39_Witness ==
    /\ phase = "finished"
    /\ filter.some
    /\ stats.total_samples = 2
    /\ Cardinality(stats.streams_written) = 1
    /\ \E g \in DOMAIN file : Len(Rows(file, g, "time")) = 2
    /\ \E key \in Keys : KeySamples(key) # <<>> /\ DataGroups(key) = {}

\* the stats agree with the file after every call
C39_StatsAlways == StatsCountFile


(***************************************************************************)
(* Streams whose columns are renamed.  The samples of stream /a come with  *)
(* the layouts above or, after the device has renamed column 0 to y and    *)
(* given its name x to a new column 1, with the renamed layout; in every   *)
(* sample the columns have distinct names.  The calls are recorded with    *)
(* their boundaries.                                                       *)
(***************************************************************************)
RenamedLayouts(key) ==
    IF key = StreamKey(<<>>, 1)
    THEN Layouts(key) \cup {<<Column(0, <<"y">>), Column(1, <<"x">>)>>}
    ELSE Layouts(key)

\* no boundary, a structural change of the column descriptors, time gone
\* backward
RenameBoundaries ==
    {None, Some(Boundary("ColumnDescChanged", TRUE)),
     Some(Boundary("TimeWentBackward", FALSE))}

WriteSampleRenamed(key, boundary, columns) ==
    /\ phase = "open"
    /\ Len(hist) < MaxSamples
    /\ LET sample == MakeSample(key, boundary, columns)
       IN  /\ \E self \in write_sample(Self, sample, key) : Adopt(self)
           /\ hist' = Append(hist, [key |-> key, n |-> sample.n,
                                    split |-> should_split(Self, sample),
                                    columns |-> columns,
                                    boundary |-> boundary])
    /\ arg' = None
    /\ phase' = IF io'.err THEN "failed" ELSE phase

NextRenamed ==
    \/ \E key \in Keys, boundary \in RenameBoundaries :
        \E columns \in RenamedLayouts(key) : WriteSampleRenamed(key, boundary, columns)
    \/ Finish

SpecRenamed == Init /\ [][NextRenamed]_vars

(***************************************************************************)
(* C40.  The output is a function of the calls.                            *)
(***************************************************************************)
\* the sample of a recorded call
SampleOfCall(call) ==
    [n |-> call.n, ts |-> timestamp_end(call.n, Segment),
     boundary |-> call.boundary, stream_name |-> StreamNameOf(call.key),
     columns |-> call.columns, session_id |-> 0]

\* the appenders the calls from the i-th on can leave, from any of selves:
\* one for every order in which the hash maps can be iterated
\* (AsLeft spells out the map of pending batches an appender is left with)
AsLeft(s) == [s EXCEPT !.pending = [k \in DOMAIN s.pending |-> s.pending[k]]]

RECURSIVE Replay(_, _)
Replay(selves, i) ==
    IF i > Len(hist) THEN selves
    ELSE Replay(UNION {write_sample(AsLeft(s), SampleOfCall(hist[i]), hist[i].key) :
                            s \in selves}, i + 1)

\* the logical content of the output: the groups with their attributes and
\* the rows of their datasets, and the stats
Content(self) == [file |-> self.file, stats |-> self.stats]

\* the contents the calls made, followed by finish(), can leave
FinalContents ==
    {Content(u) : u \in UNION {finish(AsLeft(s)) :
        s \in Replay({with_options(filter, batch_size, split_policy, split_level)}, 1)}}

\* C40: without I/O errors the groups, the rows of every dataset, the
\* attributes and the stats after finish() are determined by the sequence
\* of write_sample calls: every iteration order of the hash maps of
\* flush_all, flush_all_for_device, finish and write_batch leaves the same.
C40_FunctionOfCalls ==
    phase = "finished" => Cardinality(FinalContents) = 1

\* no call comes with the renamed layout
NeverRenamed ==
    \A i \in 1..Len(hist) : hist[i].columns \in Layouts(hist[i].key)

\* the same for streams whose columns keep their names
C40_FunctionOfCallsUnrenamed ==
    NeverRenamed => C40_FunctionOfCalls

\* the file reached is one of the contents the calls can leave
C40_ReachedIsReplayed ==
    phase = "finished" => Content(Self) \in FinalContents


\* every call whose columns differ from those of the call before it for the
\* same stream carries a ColumnDescChanged boundary
ChangesAnnounced ==
    \A key \in Keys : \A i \in 2..Len(KeySamples(key)) :
        KeySamples(key)[i].columns # KeySamples(key)[i - 1].columns =>
            KeySamples(key)[i].boundary = Some(Boundary("ColumnDescChanged", TRUE))

\* the same for streams that announce every change of their columns
C40_FunctionOfCallsAnnounced ==
    ChangesAnnounced => C40_FunctionOfCalls

====
